---- MODULE Spec2Model ----
(***************************************************************************)
(* Verification model of hardcoded-api-key-detector: the inline-ignore     *)
(* parser and the two content analyzers (scanner/analyzer.js,              *)
(* scanner/streamAnalyzer.js), the safe regex executor (utils/safeRegex.js)*)
(* the baseline manager (baseline/BaselineManager.js) and the scan         *)
(* orchestrator with its worker pool (index.js, scanner/workerPool.js,     *)
(* scanner/analyzerWorker.js).                                             *)
(*                                                                         *)
(* Text is modelled as a sequence of tokens.  A sentinel is the token      *)
(* sequence of its characters' groups, so that substring containment       *)
(* (String.prototype.includes) is real containment: the block-disable      *)
(* sentinel is a prefix of the disable-line and disable-next-line ones.    *)
(* A regular expression of the catalog is modelled by the token it         *)
(* matches.                                                                *)
(***************************************************************************)
EXTENDS Integers, Sequences, FiniteSets, TLC

VARIABLES
    \* ---- content analysis (one call of one analyzer entry point)
    file,          \* the lines the file was written with
    options,       \* the AnalysisOptions of the call
    apc,           \* "ready", or the entry point that has returned
    ignoredLines,  \* result of parseInlineIgnoreComments / lines the stream skipped
    findings,      \* result of analyzeContent / analyzeStream
    disk,          \* what the file system answers for the file
    regexFault,    \* the call of safeRegexExec that throws, if one does
    \* ---- baseline manager (one baseline file, one manager per invocation)
    stored,        \* the baseline file on disk, NoBaseline when there is none
    baseline,      \* BaselineManager.baseline
    scanArg,       \* the argument of the last generateBaseline / filterFindings
    filtered,      \* the result of the last filterFindings
    bpc,           \* the last operation of the invocation
    \* ---- one call of safeRegexExec(regex, content, timeout)
    regex,         \* the regex: [kind, global, lastIndex]
    contentLen,    \* the length of content, a repetition of one character
    timeout,       \* the timeout argument, in clock ticks
    elapsed,       \* Date.now() - startTime at the last reading of the clock
    matchCount,    \* matchCount
    matches,       \* matches, as [length, last]: its length, its last match's index
    lateMatch,     \* whether a match was found after more than timeout ticks
    rpc,           \* "loop", or how the call ended
    \* ---- one scan of a HardcodedApiDetector
    detector,      \* this.options of the detector
    scanFiles,     \* the files of the scan: file i has the lines scanFiles[i]
    spc,           \* where the scan is
    workers,       \* WorkerPool.workers: [busy, alive, task]
    queue,         \* WorkerPool.queue, as the tasks' numbers
    activeWorkers, \* WorkerPool.activeWorkers
    promises,      \* the promise of each execute(task): its state and value
    scanResult,    \* the ScanResult returned
    failedLog,     \* the files logged as failed to analyze
    threads,       \* the worker threads created: "running" or "exited"
    \* ---- validation and loading of patterns
    patternSource, \* the regex source given to validatePattern, as its characters
    validation,    \* the result of validatePattern
    patternsPath,  \* customPatternsPath of new ContentAnalyzer(customPatternsPath)
    slowPatterns,  \* the patterns safeRegexExec times out on on the stress string
    activePatterns,\* ContentAnalyzer.patterns
    ppc            \* "validate" / "load", then "validated" / "loaded"

avars == <<file, options, apc, ignoredLines, findings, disk, regexFault>>

bvars == <<stored, baseline, scanArg, filtered, bpc>>

rvars == <<regex, contentLen, timeout, elapsed, matchCount, matches, lateMatch, rpc>>

svars ==
    <<detector, scanFiles, spc, workers, queue, activeWorkers, promises, scanResult,
      failedLog, threads>>

pvars == <<patternSource, validation, patternsPath, slowPatterns, activePatterns, ppc>>

vars == <<avars, bvars, rvars, svars, pvars>>

----------------------------------------------------------------------------
\* Bounds of the model

\* longest file, in lines, analysed under the default options
MaxLines == 5
\* longest file, in lines, analysed under every combination of options
MaxOptLines == 2
\* most findings in a scan result handed to the baseline manager
MaxFindings == 2
\* longest file, in lines, analysed under file-system and regex faults
MaxFaultLines == 2
\* longest regex source of which every spelling is validated
MaxPatternLen == 5
\* most tasks given to a pool
MaxPoolTasks == 3
\* most files a scan of a directory finds
MaxDispatchFiles == 11
\* longest timeout of safeRegexExec, in clock ticks
MaxTimeout == 1
\* how far the longest content exceeds the match ceiling, in characters
MaxExtra == 2
\* most files in a scan
MaxFiles == 2
\* largest worker pool
MaxWorkers == 2

----------------------------------------------------------------------------
\* Generic helpers

Undefined == "undefined"

Null == "null"

\* a baseline that is null (in the manager) or has no file (on disk)
NoBaseline == [none |-> TRUE]

Range(seq) == {seq[i] : i \in 1..Len(seq)}

Max(a, b) == IF a > b THEN a ELSE b

Min(a, b) == IF a < b THEN a ELSE b

\* all sequences over S of length lo..hi
SeqsOf(S, lo, hi) == UNION {[1..n -> S] : n \in lo..hi}

\* String.prototype.includes on token sequences
Includes(line, needle) ==
    \E i \in 1..(Len(line) - Len(needle) + 1) :
        SubSeq(line, i, i + Len(needle) - 1) = needle

\* the file's text: its lines joined by newline tokens
RECURSIVE JoinLines(_)
JoinLines(ls) ==
    IF Len(ls) = 1 THEN ls[1]
    ELSE ls[1] \o <<"\n">> \o JoinLines(Tail(ls))

\* content.split('\n')
RECURSIVE SplitFrom(_, _, _)
SplitFrom(content, i, cur) ==
    IF i > Len(content) THEN <<cur>>
    ELSE IF content[i] = "\n" THEN <<cur>> \o SplitFrom(content, i + 1, <<>>)
    ELSE SplitFrom(content, i + 1, Append(cur, content[i]))

SplitLines(content) == SplitFrom(content, 1, <<>>)

\* number of newline tokens among the first n tokens of content
RECURSIVE NewlinesBefore(_, _)
NewlinesBefore(content, n) ==
    IF n = 0 THEN 0
    ELSE NewlinesBefore(content, n - 1) + (IF content[n] = "\n" THEN 1 ELSE 0)

\* content.lastIndexOf('\n', from), 0-based, -1 when there is none
RECURSIVE LastNewlineIndex(_, _)
LastNewlineIndex(content, from) ==
    IF from < 0 THEN -1
    ELSE IF from < Len(content) /\ content[from + 1] = "\n" THEN from
    ELSE LastNewlineIndex(content, from - 1)

----------------------------------------------------------------------------
\* The parts of the state a specification does not use stay as constructed

notA == <<bvars, rvars, svars, pvars>>

notB == <<avars, rvars, svars, pvars>>

notR == <<avars, bvars, svars, pvars>>

notS == <<avars, rvars, pvars>>

notP == <<avars, bvars, rvars, svars>>

\* a small readable text file
HealthyDisk == [fault |-> "none", size |-> 1, nullByteAt |-> 0, trailingNewlines |-> 0]

\* no call of safeRegexExec throws
NoFault == [id |-> "none", line |-> 0]

\* no pattern is being validated or loaded
PIdle ==
    /\ patternSource = <<>>
    /\ validation = [none |-> TRUE]
    /\ patternsPath = Null
    /\ slowPatterns = {}
    /\ activePatterns = <<>>
    /\ ppc = "off"

AIdle ==
    /\ file = <<>>
    /\ options = [none |-> TRUE]
    /\ apc = "off"
    /\ ignoredLines = {}
    /\ findings = <<>>
    /\ disk = HealthyDisk
    /\ regexFault = NoFault

BIdle ==
    /\ stored = NoBaseline
    /\ baseline = NoBaseline
    /\ scanArg = <<>>
    /\ filtered = <<>>
    /\ bpc = "off"

RIdle ==
    /\ regex = [kind |-> "none", global |-> TRUE, lastIndex |-> 0]
    /\ contentLen = 0
    /\ timeout = 0
    /\ elapsed = 0
    /\ matchCount = 0
    /\ matches = [length |-> 0, last |-> -1]
    /\ lateMatch = FALSE
    /\ rpc = "off"

\* a ScanResult that is not there
NoResult == [none |-> TRUE]

SIdle ==
    /\ detector = [none |-> TRUE]
    /\ scanFiles = <<>>
    /\ spc = "off"
    /\ workers = <<>>
    /\ queue = <<>>
    /\ activeWorkers = 0
    /\ promises = <<>>
    /\ scanResult = NoResult
    /\ failedLog = <<>>
    /\ threads = <<>>

----------------------------------------------------------------------------
\* Sentinels of the inline ignore comments (analyzer.js 341-367)

SentinelDisable == <<"hardcoded-detector:", "disable">>

SentinelEnable == <<"hardcoded-detector:", "enable">>

SentinelDisableNextLine == <<"hardcoded-detector:", "disable", "-next-line">>

SentinelDisableLine == <<"hardcoded-detector:", "disable", "-line">>

\* Credential tokens, one per catalog pattern
Credentials == <<"AKIA", "ghp_", "sk_live", "api_key", "tok">>

\* The lines files are made of
PlainLine == Credentials

BlockDisableLine == <<"//">> \o SentinelDisable

BlockEnableLine == Credentials \o <<"//">> \o SentinelEnable

DisableNextLineLine == <<"//">> \o SentinelDisableNextLine

DisableLineLine == Credentials \o <<"//">> \o SentinelDisableLine

LineTexts ==
    {PlainLine, BlockDisableLine, BlockEnableLine, DisableNextLineLine, DisableLineLine}

----------------------------------------------------------------------------
\* Pattern catalog: id, the token the regex matches, and the metadata the
\* analyzers read.  Object order is insertion order.

Catalog == <<
    [id |-> "aws_access_key", pattern |-> "AKIA", severity |-> "critical",
     category |-> "cloud", useEntropyFilter |-> FALSE],
    [id |-> "github_personal_token", pattern |-> "ghp_", severity |-> "high",
     category |-> "development", useEntropyFilter |-> FALSE],
    [id |-> "stripe_key", pattern |-> "sk_live", severity |-> "medium",
     category |-> "payment", useEntropyFilter |-> TRUE],
    [id |-> "generic_api_key", pattern |-> "api_key", severity |-> "low",
     category |-> "generic", useEntropyFilter |-> TRUE],
    [id |-> "bare_token", pattern |-> "tok", severity |-> Undefined,
     category |-> Undefined, useEntropyFilter |-> FALSE] >>

----------------------------------------------------------------------------
\* ContentAnalyzer (scanner/analyzer.js)

SeverityLevels == [low |-> 1, medium |-> 2, high |-> 3, critical |-> 4]

\* severityLevels[s] || 2
LevelOf(s) == IF s \in DOMAIN SeverityLevels THEN SeverityLevels[s] ELSE 2

\* x || d
OrDefault(x, d) == IF x = Undefined THEN d ELSE x

\* shouldSkipPattern without the severity threshold
shouldSkipPattern_NoSeverity(patternId, patternInfo, opts) ==
    \/ patternId \in opts.disabledPatterns
    \/ patternInfo.category \in opts.excludeCategories

shouldSkipPattern(patternId, patternInfo, opts) ==
    \/ patternId \in opts.disabledPatterns
    \/ /\ opts.minSeverity # Undefined
       /\ LevelOf(patternInfo.severity) < LevelOf(opts.minSeverity)
    \/ patternInfo.category \in opts.excludeCategories

\* parseInlineIgnoreComments with the enable line counted into the block
RECURSIVE ParseIgnoreFrom_EnableIgnored(_, _, _, _)
ParseIgnoreFrom_EnableIgnored(lines, i, blockDisabled, ignored) ==
    IF i >= Len(lines) THEN ignored
    ELSE LET line == lines[i + 1]
             lineNumber == i + 1
         IN  IF Includes(line, SentinelDisable)
                 THEN ParseIgnoreFrom_EnableIgnored(lines, i + 1, TRUE,
                                                    ignored \cup {lineNumber})
             ELSE IF blockDisabled
                 THEN ParseIgnoreFrom_EnableIgnored(lines, i + 1,
                         ~Includes(line, SentinelEnable), ignored \cup {lineNumber})
             ELSE ParseIgnoreFrom_EnableIgnored(lines, i + 1, blockDisabled, ignored)

\* One pass of the loop of parseInlineIgnoreComments from 0-based index i
RECURSIVE ParseIgnoreFrom(_, _, _, _)
ParseIgnoreFrom(lines, i, blockDisabled, ignored) ==
    IF i >= Len(lines) THEN ignored
    ELSE LET line == lines[i + 1]
             lineNumber == i + 1
         IN  IF Includes(line, SentinelDisable)
                 THEN ParseIgnoreFrom(lines, i + 1, TRUE, ignored \cup {lineNumber})
             ELSE IF Includes(line, SentinelEnable)
                 THEN ParseIgnoreFrom(lines, i + 1, FALSE, ignored)
             ELSE IF blockDisabled
                 THEN ParseIgnoreFrom(lines, i + 1, blockDisabled, ignored \cup {lineNumber})
             ELSE IF Includes(line, SentinelDisableNextLine)
                 THEN ParseIgnoreFrom(lines, i + 1, blockDisabled,
                         IF i + 1 < Len(lines) THEN ignored \cup {lineNumber + 1}
                         ELSE ignored)
             ELSE IF Includes(line, SentinelDisableLine)
                 THEN ParseIgnoreFrom(lines, i + 1, blockDisabled, ignored \cup {lineNumber})
             ELSE ParseIgnoreFrom(lines, i + 1, blockDisabled, ignored)

parseInlineIgnoreComments(lines) == ParseIgnoreFrom(lines, 0, FALSE, {})

\* The matches of a catalog regex on a text, in order of position: each
\* [index (0-based), text]
RECURSIVE RegexMatchesFrom(_, _, _)
RegexMatchesFrom(text, tok, i) ==
    IF i > Len(text) THEN <<>>
    ELSE (IF text[i] = tok THEN <<[index |-> i - 1, text |-> tok]>> ELSE <<>>)
         \o RegexMatchesFrom(text, tok, i + 1)

\* safeRegexExec(regex, text, timeout) as the analyzers call it, on a text whose
\* first line has the number firstLine: it throws (timeout, too many matches)
\* at the first match on the line of regexFault, and then `matches` holds the
\* matches found before it
SafeRegexExecOn(text, patternInfo, firstLine) ==
    LET ms == RegexMatchesFrom(text, patternInfo.pattern, 1)
        failing == {k \in 1..Len(ms) :
                       NewlinesBefore(text, ms[k].index) + firstLine = regexFault.line}
    IN  IF regexFault.id = patternInfo.id /\ failing # {}
          THEN [threw |-> TRUE,
                matches |-> SubSeq(ms, 1, (CHOOSE k \in failing : \A j \in failing : k <= j) - 1)]
          ELSE [threw |-> FALSE, matches |-> ms]

findMatches(content, patternInfo) ==
    LET r == SafeRegexExecOn(content, patternInfo, 1)
    IN  IF r.threw THEN <<>> ELSE r.matches

\* Entropy classification of a matched text (utils/entropy.js analyzeEntropy);
\* entropies are in hundredths of a bit
EntropyOf(text) ==
    CASE text = "AKIA"    -> 420
      [] text = "ghp_"    -> 510
      [] text = "sk_live" -> 400
      [] text = "api_key" -> 310
      [] OTHER            -> 360

\* a classification that takes only high entropy for a secret
analyzeEntropy_SecretFromHigh(text) ==
    LET entropy == EntropyOf(text)
    IN  IF entropy >= 500 THEN [entropy |-> entropy, level |-> "high", isSecret |-> TRUE]
        ELSE IF entropy >= 400 THEN [entropy |-> entropy, level |-> "medium", isSecret |-> FALSE]
        ELSE IF entropy >= 350 THEN [entropy |-> entropy, level |-> "medium", isSecret |-> FALSE]
        ELSE [entropy |-> entropy, level |-> "low", isSecret |-> FALSE]

analyzeEntropy(text) ==
    LET entropy == EntropyOf(text)
    IN  IF entropy >= 500 THEN [entropy |-> entropy, level |-> "high", isSecret |-> TRUE]
        ELSE IF entropy >= 400 THEN [entropy |-> entropy, level |-> "medium", isSecret |-> TRUE]
        ELSE IF entropy >= 350 THEN [entropy |-> entropy, level |-> "medium", isSecret |-> FALSE]
        ELSE [entropy |-> entropy, level |-> "low", isSecret |-> FALSE]

\* The findings one pattern's matches contribute in analyzeContent (233-273)
RECURSIVE ContentFindingsOf(_, _, _, _, _)
ContentFindingsOf(content, ignored, patternInfo, opts, ms) ==
    IF ms = <<>> THEN <<>>
    ELSE LET match == Head(ms)
             lineNumber == NewlinesBefore(content, match.index) + 1
             entropyAnalysis == analyzeEntropy(match.text)
             rest == ContentFindingsOf(content, ignored, patternInfo, opts, Tail(ms))
         IN  IF lineNumber \in ignored THEN rest
             ELSE IF opts.useEntropyFilter /\ patternInfo.useEntropyFilter
                     /\ ~entropyAnalysis.isSecret THEN rest
             ELSE <<[id |-> patternInfo.id,
                     type |-> OrDefault(patternInfo.category, "unknown"),
                     category |-> OrDefault(patternInfo.category, "unknown"),
                     severity |-> OrDefault(patternInfo.severity, "medium"),
                     match |-> match.text,
                     line |-> lineNumber,
                     column |-> match.index - LastNewlineIndex(content, match.index - 1),
                     entropy |-> entropyAnalysis.level]>> \o rest

\* a loop over the catalog that ends at the first pattern whose execution
\* throws
RECURSIVE ContentFindingsFrom_StopsAtThrow(_, _, _, _, _)
ContentFindingsFrom_StopsAtThrow(content, ignored, patterns, opts, k) ==
    IF k > Len(patterns) THEN <<>>
    ELSE IF shouldSkipPattern(patterns[k].id, patterns[k], opts)
        THEN ContentFindingsFrom_StopsAtThrow(content, ignored, patterns, opts, k + 1)
    ELSE IF SafeRegexExecOn(content, patterns[k], 1).threw THEN <<>>
    ELSE ContentFindingsOf(content, ignored, patterns[k], opts,
                           findMatches(content, patterns[k]))
         \o ContentFindingsFrom_StopsAtThrow(content, ignored, patterns, opts, k + 1)

\* The loop over the pattern catalog of analyzeContent (226-274)
RECURSIVE ContentFindingsFrom(_, _, _, _, _)
ContentFindingsFrom(content, ignored, patterns, opts, k) ==
    IF k > Len(patterns) THEN <<>>
    ELSE (IF shouldSkipPattern(patterns[k].id, patterns[k], opts) THEN <<>>
          ELSE ContentFindingsOf(content, ignored, patterns[k], opts,
                                 findMatches(content, patterns[k])))
         \o ContentFindingsFrom(content, ignored, patterns, opts, k + 1)

\* analyzeContent on a readable text file within the size limits
analyzeContent(patterns, fileLines, opts) ==
    LET content == JoinLines(fileLines)
        lines == SplitLines(content)
        ignored == parseInlineIgnoreComments(lines)
    IN  ContentFindingsFrom(content, ignored, patterns, opts, 1)

\* The file system under analyzeContent(filePath, options).  disk.fault is the
\* condition of the file: "ENOENT" (missing), "EACCES" (directory not
\* searchable), "EIO" (stat fails otherwise), "unreadable" (no read
\* permission), "EISDIR" (reads fail), "closeFails" (closing the descriptor
\* fails), or "none".
MAX_FILE_SIZE == 10485760

MAX_LINES == 100000

Thrown(code) == [threw |-> TRUE, code |-> code, value |-> <<>>, ignored |-> {}]

Returned(value, ignored) ==
    [threw |-> FALSE, code |-> "none", value |-> value, ignored |-> ignored]

\* fs.stat(filePath)
Stat(d) ==
    IF d.fault \in {"ENOENT", "EACCES", "EIO"} THEN Thrown(d.fault)
    ELSE Returned(d.size, {})

isBinaryFile(d) ==
    IF d.fault = "unreadable" THEN Returned(FALSE, {})
    ELSE IF d.fault = "closeFails" THEN Thrown("EIO")
    ELSE IF d.fault = "EISDIR" THEN Returned(FALSE, {})
    ELSE LET bytesRead == IF d.size < 512 THEN d.size ELSE 512
         IN  Returned(d.nullByteAt \in 1..bytesRead, {})

\* fs.readFile(filePath, 'utf8')
ReadFile(d) ==
    IF d.fault = "unreadable" THEN Thrown("EACCES")
    ELSE IF d.fault = "EISDIR" THEN Thrown("EISDIR")
    ELSE Returned(TRUE, {})

\* the try block of analyzeContent (193-276); the file's content is fileLines
\* followed by d.trailingNewlines newlines
TryAnalyzeContent(patterns, fileLines, opts, d) ==
    LET stats == Stat(d)
        binary == isBinaryFile(d)
        content == ReadFile(d)
        lines == SplitLines(JoinLines(fileLines))
    IN  IF stats.threw THEN stats
        ELSE IF stats.value > MAX_FILE_SIZE THEN Returned(<<>>, {})
        ELSE IF binary.threw THEN binary
        ELSE IF binary.value THEN Returned(<<>>, {})
        ELSE IF content.threw THEN content
        ELSE IF Len(lines) + d.trailingNewlines > MAX_LINES THEN Returned(<<>>, {})
        ELSE Returned(analyzeContent(patterns, fileLines, opts),
                      parseInlineIgnoreComments(lines))

\* a catch block that re-throws what is neither ENOENT nor EACCES
CatchAnalyzeContent_RethrowsOther(r) ==
    IF ~r.threw THEN r
    ELSE IF r.code = "ENOENT" THEN Returned(<<>>, {})
    ELSE IF r.code = "EACCES" THEN Returned(<<>>, {})
    ELSE r

\* the catch block of analyzeContent (277-288)
CatchAnalyzeContent(r) ==
    IF ~r.threw THEN r
    ELSE IF r.code = "ENOENT" THEN Returned(<<>>, {})
    ELSE IF r.code = "EACCES" THEN Returned(<<>>, {})
    ELSE Returned(<<>>, {})

\* analyzeContent(filePath, options) on the file with the state d
analyzeContentOfFile(patterns, fileLines, opts, d) ==
    CatchAnalyzeContent(TryAnalyzeContent(patterns, fileLines, opts, d))

----------------------------------------------------------------------------
\* StreamAnalyzer (scanner/streamAnalyzer.js 24-195)

\* the lines readline yields: no last empty line after a final newline
ReadLines(content) ==
    LET ls == SplitLines(content)
    IN  IF ls[Len(ls)] = <<>> THEN SubSeq(ls, 1, Len(ls) - 1) ELSE ls

checkInlineIgnore(line, lineNumber, state) ==
    IF Includes(line, SentinelDisableLine) THEN TRUE
    ELSE IF state.blockDisabled THEN TRUE
    ELSE FALSE

StreamShouldSkipPattern(patternId, patternInfo, opts) ==
    \/ patternId \in opts.disabledPatterns
    \/ /\ opts.minSeverity # Undefined
       /\ LevelOf(patternInfo.severity) < LevelOf(opts.minSeverity)
    \/ patternInfo.category \in opts.excludeCategories

\* The findings one pattern's matches on one line contribute (86-115)
RECURSIVE StreamFindingsOf(_, _, _, _)
StreamFindingsOf(lineNumber, patternInfo, opts, ms) ==
    IF ms = <<>> THEN <<>>
    ELSE LET match == Head(ms)
             entropyAnalysis == analyzeEntropy(match.text)
             rest == StreamFindingsOf(lineNumber, patternInfo, opts, Tail(ms))
         IN  IF opts.useEntropyFilter /\ patternInfo.useEntropyFilter
                /\ ~entropyAnalysis.isSecret THEN rest
             ELSE <<[id |-> patternInfo.id,
                     type |-> OrDefault(patternInfo.category, "unknown"),
                     severity |-> OrDefault(patternInfo.severity, "medium"),
                     match |-> match.text,
                     line |-> lineNumber,
                     column |-> match.index,
                     entropy |-> entropyAnalysis.level]>> \o rest

\* The loop over the catalog for one line (77-121)
RECURSIVE StreamLineFindings(_, _, _, _, _)
StreamLineFindings(line, lineNumber, patterns, opts, k) ==
    IF k > Len(patterns) THEN <<>>
    ELSE (IF StreamShouldSkipPattern(patterns[k].id, patterns[k], opts) THEN <<>>
          ELSE LET r == SafeRegexExecOn(line, patterns[k], lineNumber)
               IN  IF r.threw THEN <<>>
                   ELSE StreamFindingsOf(lineNumber, patterns[k], opts, r.matches))
         \o StreamLineFindings(line, lineNumber, patterns, opts, k + 1)

\* The loop over the lines (50-128); lineNumber is the number of the last
\* line read.  Returns the findings and the lines skipped by the ignore state.
RECURSIVE StreamFrom(_, _, _, _, _, _, _, _)
StreamFrom(lines, lineNumber, blockDisabled, skipNextLine, patterns, opts, found, skipped) ==
    IF lineNumber >= Len(lines) THEN [findings |-> found, skipped |-> skipped]
    ELSE LET n == lineNumber + 1
             line == lines[n]
             shouldIgnoreLine ==
                 checkInlineIgnore(line, n, [blockDisabled |-> blockDisabled,
                                             skipNextLine |-> skipNextLine])
             bd1 == IF Includes(line, SentinelDisable) THEN TRUE ELSE blockDisabled
             bd2 == IF Includes(line, SentinelEnable) THEN FALSE ELSE bd1
             currentSkipNextLine == skipNextLine
             skip2 == Includes(line, SentinelDisableNextLine)
         IN  IF shouldIgnoreLine \/ currentSkipNextLine
                 THEN StreamFrom(lines, n, bd2, skip2, patterns, opts, found,
                                 skipped \cup {n})
             ELSE LET found2 == found \o StreamLineFindings(line, n, patterns, opts, 1)
                  IN  IF Len(found2) >= (IF opts.maxFindings = 0 THEN 1000 ELSE opts.maxFindings)
                          THEN [findings |-> found2, skipped |-> skipped]
                      ELSE StreamFrom(lines, n, bd2, skip2, patterns, opts, found2, skipped)

\* analyzeStream on a readable file
analyzeStream(patterns, fileLines, opts) ==
    StreamFrom(ReadLines(JoinLines(fileLines)), 0, FALSE, FALSE, patterns, opts, <<>>, {})

\* analyzeStream(filePath, patterns, options) on the file with the state d:
\* an error of the read stream ends in the outer catch (131-134)
analyzeStreamOfFile(patterns, fileLines, opts, d) ==
    IF d.fault \in {"ENOENT", "EACCES", "EIO", "unreadable", "EISDIR"}
      THEN [findings |-> <<>>, skipped |-> {}]
    ELSE analyzeStream(patterns, fileLines, opts)

----------------------------------------------------------------------------
\* Inputs of the content analysis

\* maxFindings 0 stands for the option left out: `options.maxFindings || 1000`
\* reads both as 1000
DefaultOptions ==
    [minSeverity |-> "medium", disabledPatterns |-> {}, excludeCategories |-> {},
     useEntropyFilter |-> FALSE, maxFindings |-> 0]

AllOptions ==
    [minSeverity : {Undefined, "low", "medium", "high", "critical"},
     disabledPatterns : {{}, {"aws_access_key"}, {"github_personal_token", "bare_token"}},
     excludeCategories : {{}, {"cloud"}, {"payment", "generic"}},
     useEntropyFilter : BOOLEAN,
     maxFindings : {0}]

AnalysisInputs ==
    {[file |-> f, options |-> DefaultOptions] : f \in SeqsOf(LineTexts, 1, MaxLines)}
    \cup {[file |-> f, options |-> o] : f \in SeqsOf(LineTexts, 1, MaxOptLines),
                                        o \in AllOptions}

AInit ==
    /\ PIdle
    /\ BIdle
    /\ RIdle
    /\ SIdle
    /\ \E in \in AnalysisInputs : file = in.file /\ options = in.options
    /\ apc = "ready"
    /\ ignoredLines = {}
    /\ findings = <<>>
    /\ disk = HealthyDisk
    /\ regexFault = NoFault

\* a call of parseInlineIgnoreComments on the file's lines
ParseInlineIgnore ==
    /\ apc = "ready"
    /\ ignoredLines' = parseInlineIgnoreComments(SplitLines(JoinLines(file)))
    /\ apc' = "parsed"
    /\ UNCHANGED <<file, options, findings, disk, regexFault, notA>>

\* a call of ContentAnalyzer.analyzeContent
AnalyzeContent ==
    /\ apc = "ready"
    /\ LET r == analyzeContentOfFile(Catalog, file, options, disk)
       IN  /\ findings' = r.value
           /\ ignoredLines' = r.ignored
           /\ apc' = IF r.threw THEN "threw" ELSE "analyzed"
    /\ UNCHANGED <<file, options, disk, regexFault, notA>>

\* a call of StreamAnalyzer.analyzeStream with the analyzer's catalog
AnalyzeStream ==
    /\ apc = "ready"
    /\ LET r == analyzeStreamOfFile(Catalog, file, options, disk)
       IN  findings' = r.findings /\ ignoredLines' = r.skipped
    /\ apc' = "streamed"
    /\ UNCHANGED <<file, options, disk, regexFault, notA>>

ANext == ParseInlineIgnore \/ AnalyzeContent \/ AnalyzeStream

\* Inputs of the analysis of one file under faults

FileOptions ==
    [minSeverity : {"low", "medium"},
     disabledPatterns : {{}},
     excludeCategories : {{}},
     useEntropyFilter : BOOLEAN,
     maxFindings : {0, 1, 3}]

DiskFaults == {"ENOENT", "EACCES", "EIO", "unreadable", "EISDIR", "closeFails"}

DiskStates ==
    {HealthyDisk}
    \cup {[HealthyDisk EXCEPT !.fault = f] : f \in DiskFaults}
    \cup {[HealthyDisk EXCEPT !.size = n] : n \in {MAX_FILE_SIZE, MAX_FILE_SIZE + 1}}
    \cup {[HealthyDisk EXCEPT !.size = 1024, !.nullByteAt = b] : b \in {1, 512, 513}}
    \cup {[HealthyDisk EXCEPT !.trailingNewlines = k] : k \in {MAX_LINES - 2, MAX_LINES - 1}}

RegexFaults == [id : {Catalog[k].id : k \in 1..Len(Catalog)}, line : 1..MaxFaultLines]

FInit ==
    /\ PIdle
    /\ BIdle
    /\ RIdle
    /\ SIdle
    /\ file \in SeqsOf(LineTexts, 1, MaxFaultLines)
    /\ options \in FileOptions
    /\ \/ disk \in DiskStates /\ regexFault = NoFault
       \/ disk = HealthyDisk /\ regexFault \in RegexFaults
    /\ apc = "ready"
    /\ ignoredLines = {}
    /\ findings = <<>>

FNext == AnalyzeContent \/ AnalyzeStream

SpecFile == FInit /\ [][FNext]_vars

SpecAnalyze == AInit /\ [][ANext]_vars

----------------------------------------------------------------------------
\* safeRegexExec (utils/safeRegex.js 30-68).  The content is n repetitions of
\* the character a; the regex is one of
\*   everyChar  /./g    one match of one character at every index below n
\*   empty      /x*/g   an empty match at every index up to n
\*   greedy     /a*/g   the rest of the content, then an empty match at n
\*   none       /xyz/g  no match
\*   nonGlobal  /a/     the first character, wherever the last match ended

MAX_MATCHES == 10000

NoMatch == [index |-> -1, end |-> -1]

\* regex.exec(content) with lastIndex = from on a content of n characters:
\* the match's index and the index after its end, or NoMatch
RegexExec(kind, n, from) ==
    CASE kind = "everyChar" -> IF from < n THEN [index |-> from, end |-> from + 1] ELSE NoMatch
      [] kind = "empty"     -> IF from <= n THEN [index |-> from, end |-> from] ELSE NoMatch
      [] kind = "greedy"    -> IF from <= n THEN [index |-> from, end |-> n] ELSE NoMatch
      [] kind = "nonGlobal" -> IF n >= 1 THEN [index |-> 0, end |-> 1] ELSE NoMatch
      [] OTHER              -> NoMatch

\* the match the next regex.exec(content) returns
NextMatch == RegexExec(regex.kind, contentLen, IF regex.global THEN regex.lastIndex ELSE 0)

\* the timeout test one tick too lenient
TimedOut_OneTickLate(now, limit) == now > limit + 1

\* Date.now() - startTime > timeout
TimedOut(now, limit) == now > limit

\* a loop that leaves lastIndex where exec put it
AdvancePastEmptyMatch_Never(index, lastIndex) == lastIndex

\* if (match.index === regex.lastIndex) regex.lastIndex++ (53-55)
AdvancePastEmptyMatch(index, lastIndex) ==
    IF index = lastIndex THEN lastIndex + 1 ELSE lastIndex

\* matchCount++ > MAX_MATCHES
TooManyMatches(count) == count > MAX_MATCHES

ContentLens == {0, 1, 2, MAX_MATCHES, MAX_MATCHES + 1, MAX_MATCHES + MaxExtra}

RegexInputs ==
    {[kind |-> k, global |-> TRUE, n |-> n] :
        k \in {"everyChar", "empty"}, n \in ContentLens}
    \cup {[kind |-> k, global |-> TRUE, n |-> n] : k \in {"greedy", "none"}, n \in 0..2}
    \cup {[kind |-> "nonGlobal", global |-> FALSE, n |-> n] : n \in 0..2}

RInit ==
    /\ PIdle
    /\ AIdle
    /\ BIdle
    /\ SIdle
    /\ \E in \in RegexInputs :
        /\ regex = [kind |-> in.kind, global |-> in.global, lastIndex |-> 0]
        /\ contentLen = in.n
    /\ timeout \in 0..MaxTimeout
    /\ elapsed = 0
    /\ matchCount = 0
    /\ matches = [length |-> 0, last |-> -1]
    /\ lateMatch = FALSE
    /\ rpc = "loop"

\* regex.exec returns null: the loop ends and matches is returned (37, 60)
ExecNoMatch ==
    /\ rpc = "loop"
    /\ NextMatch = NoMatch
    /\ regex' = [regex EXCEPT !.lastIndex = 0]
    /\ rpc' = "returned"
    /\ UNCHANGED <<contentLen, timeout, elapsed, matchCount, matches, lateMatch, notR>>

\* regex.exec returns a match: one iteration of the loop (37-58)
ExecMatch ==
    /\ rpc = "loop"
    /\ NextMatch # NoMatch
    /\ \E now \in elapsed..(timeout + 1) :
        LET match == NextMatch
            lastIndex == IF regex.global THEN match.end ELSE regex.lastIndex
        IN  /\ elapsed' = now
            /\ lateMatch' = (lateMatch \/ now > timeout)
            /\ IF TimedOut(now, timeout)
                 THEN /\ rpc' = "timeout"
                      /\ regex' = [regex EXCEPT !.lastIndex = lastIndex]
                      /\ UNCHANGED <<matchCount, matches>>
               ELSE IF TooManyMatches(matchCount)
                 THEN /\ rpc' = "tooManyMatches"
                      /\ matchCount' = matchCount + 1
                      /\ regex' = [regex EXCEPT !.lastIndex = lastIndex]
                      /\ UNCHANGED matches
               ELSE /\ rpc' = "loop"
                    /\ matchCount' = matchCount + 1
                    /\ regex' = [regex EXCEPT !.lastIndex =
                                    AdvancePastEmptyMatch(match.index, lastIndex)]
                    /\ matches' = [length |-> matches.length + 1, last |-> match.index]
    /\ UNCHANGED <<contentLen, timeout, notR>>

\* regex.exec throws: the error is wrapped and thrown (61-67)
ExecThrows ==
    /\ rpc = "loop"
    /\ rpc' = "executionError"
    /\ UNCHANGED <<regex, contentLen, timeout, elapsed, matchCount, matches, lateMatch,
                   notR>>

RNext == ExecNoMatch \/ ExecMatch \/ ExecThrows

SpecRegex == RInit /\ [][RNext]_vars

\* the calls whose termination is in question: every regex on a short
\* content, and the one-character matches of a content longer than the ceiling
RFairInit ==
    /\ RInit
    /\ contentLen <= 2 \/ (regex.kind = "everyChar" /\ contentLen = MAX_MATCHES + MaxExtra)

\* the loop is sequential code: it keeps taking its next step
SpecRegexFair == RFairInit /\ [][RNext]_vars /\ WF_vars(RNext)

----------------------------------------------------------------------------
\* BaselineManager (baseline/BaselineManager.js)

\* generateFindingHash: SHA-256 of JSON.stringify({file, line, id, match}).
\* The JSON text determines the four fields and the digest is taken to be
\* collision-free, so the digest is modelled by the tuple it is computed from.
generateFindingHash(finding, filePath) ==
    <<"sha256", filePath, finding.line, finding.id, finding.match>>

\* `${filePath}:${finding.line}`: the line is a number, so the text after the
\* last colon is the line and the key determines the pair
BaselineKey(filePath, line) == <<filePath, line>>

\* finding.match.substring(0, 50); the model's matched texts are shorter
MatchPrefix(match) == match

DefaultReason == "Baselined during initial scan"

\* baseline.files[key] = entry
PutEntry(files, key, entry) ==
    [k \in (DOMAIN files) \cup {key} |-> IF k = key THEN entry ELSE files[k]]

NoFiles == [k \in {} |-> Null]

\* the body of the inner loop of generateBaseline (107-125)
RECURSIVE GenerateFromFindings(_, _, _)
GenerateFromFindings(b, filePath, fs) ==
    IF fs = <<>> THEN b
    ELSE LET finding == Head(fs)
             hash == generateFindingHash(finding, filePath)
             key == BaselineKey(filePath, finding.line)
             entry == [type |-> finding.id,
                       severity |-> finding.severity,
                       hash |-> hash,
                       reviewed |-> FALSE,
                       reviewedBy |-> Null,
                       reviewDate |-> Null,
                       reason |-> DefaultReason,
                       line |-> finding.line,
                       match |-> MatchPrefix(finding.match)]
         IN  GenerateFromFindings(
                 [totalFindings |-> b.totalFindings + 1,
                  files |-> PutEntry(b.files, key, entry)],
                 filePath, Tail(fs))

\* the outer loop of generateBaseline (104-126)
RECURSIVE GenerateFromFiles(_, _)
GenerateFromFiles(b, fileResults) ==
    IF fileResults = <<>> THEN b
    ELSE GenerateFromFiles(
             GenerateFromFindings(b, Head(fileResults).file, Head(fileResults).findings),
             Tail(fileResults))

\* the baseline generateBaseline builds, saves and returns
generateBaseline(scanResultFindings) ==
    GenerateFromFiles([totalFindings |-> 0, files |-> NoFiles], scanResultFindings)

\* isBaselined that trusts the file:line key alone
isBaselined_KeyOnly(b, finding, filePath) ==
    b # NoBaseline /\ BaselineKey(filePath, finding.line) \in DOMAIN b.files

isBaselined(b, finding, filePath) ==
    IF b = NoBaseline THEN FALSE
    ELSE LET key == BaselineKey(filePath, finding.line)
         IN  IF key \notin DOMAIN b.files THEN FALSE
             ELSE b.files[key].hash = generateFindingHash(finding, filePath)

RECURSIVE FilterFiles(_, _)
FilterFiles(b, fileResults) ==
    IF fileResults = <<>> THEN <<>>
    ELSE LET fileResult == Head(fileResults)
             keep(finding) == ~isBaselined(b, finding, fileResult.file)
             filteredFileFindings == SelectSeq(fileResult.findings, keep)
         IN  (IF Len(filteredFileFindings) > 0
                THEN <<[file |-> fileResult.file, findings |-> filteredFileFindings]>>
                ELSE <<>>)
             \o FilterFiles(b, Tail(fileResults))

filterFindings(b, fileResults) ==
    IF b = NoBaseline THEN fileResults ELSE FilterFiles(b, fileResults)

\* the baseline loadBaseline leaves in the manager
loadBaseline(onDisk) ==
    IF onDisk # NoBaseline THEN onDisk ELSE [files |-> NoFiles]

----------------------------------------------------------------------------
\* Inputs of the baseline manager: scan results, as lists of
\* {file, findings} with distinct files and at least one finding each

BaselineFiles == {"a.js", "b.js"}

BaselineLines == {1, 2}

\* what the catalog pattern of an id reports as severity, and what it can match
MatchesOfId ==
    [aws_access_key |-> {"AKIA1", "AKIA2"}, github_personal_token |-> {"ghp_1"}]

SeverityOfId == [aws_access_key |-> "critical", github_personal_token |-> "high"]

BaselineFindings ==
    UNION {{[id |-> i, severity |-> SeverityOfId[i], line |-> l, match |-> m] :
                l \in BaselineLines, m \in MatchesOfId[i]} : i \in DOMAIN MatchesOfId}

RECURSIVE CountFindings(_)
CountFindings(fileResults) ==
    IF fileResults = <<>> THEN 0
    ELSE Len(Head(fileResults).findings) + CountFindings(Tail(fileResults))

ScanResultFindings ==
    {<<>>}
    \cup {<<[file |-> f, findings |-> fs]>> :
            f \in BaselineFiles, fs \in SeqsOf(BaselineFindings, 1, MaxFindings)}
    \cup {r \in {<<[file |-> f1, findings |-> fs1], [file |-> f2, findings |-> fs2]>> :
                    f1 \in BaselineFiles, f2 \in BaselineFiles,
                    fs1 \in SeqsOf(BaselineFindings, 1, MaxFindings - 1),
                    fs2 \in SeqsOf(BaselineFindings, 1, MaxFindings - 1)} :
            r[1].file # r[2].file /\ CountFindings(r) <= MaxFindings}

BInit ==
    /\ PIdle
    /\ AIdle
    /\ RIdle
    /\ SIdle
    /\ stored = NoBaseline
    /\ baseline = NoBaseline
    /\ scanArg = <<>>
    /\ filtered = <<>>
    /\ bpc = "idle"

\* BaselineManager.generateBaseline(scanResults), the file written
GenerateBaseline ==
    /\ bpc = "idle"
    /\ \E r \in ScanResultFindings :
        /\ scanArg' = r
        /\ stored' = generateBaseline(r)
    /\ bpc' = "generated"
    /\ UNCHANGED <<baseline, filtered, notB>>

\* BaselineManager.generateBaseline(scanResults), saveBaseline throwing
GenerateBaselineSaveFails ==
    /\ bpc = "idle"
    /\ \E r \in ScanResultFindings : scanArg' = r
    /\ bpc' = "generateFailed"
    /\ UNCHANGED <<stored, baseline, filtered, notB>>

\* BaselineManager.loadBaseline(), once per invocation as in the scans
LoadBaseline ==
    /\ bpc = "idle"
    /\ baseline' = loadBaseline(stored)
    /\ bpc' = "loaded"
    /\ UNCHANGED <<stored, scanArg, filtered, notB>>

\* BaselineManager.filterFindings(findings)
FilterFindings ==
    /\ bpc \in {"idle", "loaded"}
    /\ \E r \in ScanResultFindings :
        /\ scanArg' = r
        /\ filtered' = filterFindings(baseline, r)
    /\ bpc' = "filtered"
    /\ UNCHANGED <<stored, baseline, notB>>

\* the process ends; the next invocation starts with a new manager
EndInvocation ==
    /\ bpc \in {"generated", "generateFailed", "loaded", "filtered"}
    /\ baseline' = NoBaseline
    /\ scanArg' = <<>>
    /\ filtered' = <<>>
    /\ bpc' = "idle"
    /\ UNCHANGED <<stored, notB>>

BNext ==
    \/ GenerateBaseline
    \/ GenerateBaselineSaveFails
    \/ LoadBaseline
    \/ FilterFindings
    \/ EndInvocation

SpecBaseline == BInit /\ [][BNext]_vars

----------------------------------------------------------------------------
\* BaselineManager.updateReview (201-215)

\* a key with no colon is the pair of its text and 0; this one names a
\* property every object inherits from Object.prototype
InheritedKeys == {<<"constructor", 0>>}

\* !this.baseline.files[fileKey] is false: an entry of the baseline, or an
\* inherited property, which is a function
TruthyProperty(files, fileKey) ==
    fileKey \in DOMAIN files \/ fileKey \in InheritedKeys

ReviewDate == "now"

\* a review that also forgets the hash of the entry
ReviewedEntry_NoHash(files, fileKey, reviewInfo) ==
    IF fileKey \in DOMAIN files
      THEN [files[fileKey] EXCEPT !.reviewed = TRUE,
                                  !.reviewedBy = reviewInfo.reviewedBy,
                                  !.reviewDate = ReviewDate,
                                  !.reason = reviewInfo.reason,
                                  !.hash = <<>>]
    ELSE [reviewed |-> TRUE,
          reviewedBy |-> reviewInfo.reviewedBy,
          reviewDate |-> ReviewDate,
          reason |-> reviewInfo.reason]

\* { ...this.baseline.files[fileKey], reviewed: true, reviewedBy, reviewDate,
\* reason }; the spread of a function has no property
ReviewedEntry(files, fileKey, reviewInfo) ==
    IF fileKey \in DOMAIN files
      THEN [files[fileKey] EXCEPT !.reviewed = TRUE,
                                  !.reviewedBy = reviewInfo.reviewedBy,
                                  !.reviewDate = ReviewDate,
                                  !.reason = reviewInfo.reason]
    ELSE [reviewed |-> TRUE,
          reviewedBy |-> reviewInfo.reviewedBy,
          reviewDate |-> ReviewDate,
          reason |-> reviewInfo.reason]

\* updateReview up to the call of saveBaseline: whether it threw, and
\* this.baseline
updateReview(b, fileKey, reviewInfo) ==
    IF b = NoBaseline THEN [threw |-> TRUE, baseline |-> b]
    ELSE IF ~TruthyProperty(b.files, fileKey) THEN [threw |-> TRUE, baseline |-> b]
    ELSE [threw |-> FALSE,
          baseline |-> [b EXCEPT !.files =
                           PutEntry(b.files, fileKey,
                                    ReviewedEntry(b.files, fileKey, reviewInfo))]]

ReviewKeys ==
    {BaselineKey(f, l) : f \in BaselineFiles, l \in BaselineLines} \cup InheritedKeys

ReviewInfos == {[reviewedBy |-> "alice", reason |-> "false positive"]}

\* the baseline files of earlier invocations
StoredBaselines == {NoBaseline} \cup {generateBaseline(r) : r \in ScanResultFindings}

VInit ==
    /\ PIdle
    /\ AIdle
    /\ RIdle
    /\ SIdle
    /\ stored \in StoredBaselines
    /\ baseline = NoBaseline
    /\ scanArg = <<>>
    /\ filtered = <<>>
    /\ bpc = "idle"

\* updateReview(fileKey, reviewInfo); saveBaseline writes the file or throws
UpdateReview ==
    /\ bpc \in {"idle", "loaded"}
    /\ \E fileKey \in ReviewKeys, reviewInfo \in ReviewInfos, saved \in BOOLEAN :
        LET r == updateReview(baseline, fileKey, reviewInfo)
        IN  /\ scanArg' = <<fileKey>>
            /\ baseline' = r.baseline
            /\ stored' = IF ~r.threw /\ saved THEN r.baseline ELSE stored
            /\ bpc' = IF r.threw \/ ~saved THEN "reviewFailed" ELSE "reviewed"
    /\ UNCHANGED <<filtered, notB>>

\* the process ends after a review
EndReview ==
    /\ bpc \in {"loaded", "reviewed", "reviewFailed"}
    /\ baseline' = NoBaseline
    /\ scanArg' = <<>>
    /\ filtered' = <<>>
    /\ bpc' = "idle"
    /\ UNCHANGED <<stored, notB>>

VNext == LoadBaseline \/ UpdateReview \/ EndReview

SpecReview == VInit /\ [][VNext]_vars

----------------------------------------------------------------------------
\* Pattern loading of ContentAnalyzer (analyzer.js 79-177)

\* the custom patterns file of the detector that has one
CustomPatternsFile ==
    [patterns |-> <<
        [id |-> "test_custom_pattern", pattern |-> "CUSTOM_", severity |-> "high",
         category |-> "custom", useEntropyFilter |-> FALSE],
        [id |-> "redos_pattern", pattern |-> "(a+)+", severity |-> "high",
         category |-> "custom", useEntropyFilter |-> FALSE],
        [id |-> "backreference_pattern", pattern |-> "(a)\\1", severity |-> "high",
         category |-> "custom", useEntropyFilter |-> FALSE] >>,
     disabled |-> {"bare_token"}]

\* the characters of a pattern's regex source; the source of a pattern that
\* matches a literal word is that word, one token
RegexSource(pattern) ==
    CASE pattern = "(a+)+" -> << "(", "a", "+", ")", "+" >>
      [] pattern = "(a)\\1" -> << "(", "a", ")", "\\", "1" >>
      [] OTHER -> << pattern >>

\* the character at position i of a source, "" past its ends
At(p, i) == IF i \in 1..Len(p) THEN p[i] ELSE ""

Quantifiers == {"+", "*"}

\* /\([^)]*[+*]\)[+*]/
HasNestedQuantifiers(p) ==
    \E i \in 1..Len(p), j \in 1..Len(p) :
        /\ i < j
        /\ p[i] = "("
        /\ \A k \in (i + 1)..(j - 1) : p[k] # ")"
        /\ p[j] \in Quantifiers
        /\ At(p, j + 1) = ")"
        /\ At(p, j + 2) \in Quantifiers

\* /\|.*\|.*\|/ and /[+*]/
HasAlternationsWithQuantifiers(p) ==
    /\ \E i \in 1..Len(p), j \in 1..Len(p), k \in 1..Len(p) :
           i < j /\ j < k /\ p[i] = "|" /\ p[j] = "|" /\ p[k] = "|"
    /\ \E i \in 1..Len(p) : p[i] \in Quantifiers

\* /(\.\*){2,}|(\.\+){2,}/
HasMultipleWildcards(p) ==
    \E i \in 1..Len(p), q \in Quantifiers :
        /\ p[i] = "." /\ At(p, i + 1) = q
        /\ At(p, i + 2) = "." /\ At(p, i + 3) = q

WordChars == {"a", "w", "1"}

\* /\(\w\+\){2,}\$/: the {2,} repeats the closing parenthesis
HasRepeatedGroupAtEnd(p) ==
    \E i \in 1..Len(p), m \in 2..Len(p) :
        /\ p[i] = "(" /\ At(p, i + 1) \in WordChars /\ At(p, i + 2) = "+"
        /\ \A k \in (i + 3)..(i + 2 + m) : At(p, k) = ")"
        /\ At(p, i + 3 + m) = "$"

\* /\\[1-9]/
HasBackreferences(p) ==
    \E i \in 1..Len(p) :
        /\ p[i] = "\\"
        /\ At(p, i + 1) \in {"1", "2", "3", "4", "5", "6", "7", "8", "9"}

\* /\[[^\]]{50,}\]/
HasLargeCharacterClass(p) ==
    \E i \in 1..Len(p), j \in 1..Len(p) :
        /\ p[i] = "[" /\ p[j] = "]"
        /\ j - i - 1 >= 50
        /\ \A k \in (i + 1)..(j - 1) : p[k] # "]"

\* a validatePattern that rates every pattern safe
validatePattern_WarningsOnly(p) ==
    [safe |-> TRUE, warnings |-> <<>>]

\* validatePattern(pattern), pattern as the characters of the regex source
validatePattern(p) ==
    LET w(test, message) == IF test THEN <<message>> ELSE <<>>
    IN  [safe |-> ~HasNestedQuantifiers(p) /\ ~HasMultipleWildcards(p),
         warnings |->
             w(HasNestedQuantifiers(p), "Nested quantifiers detected") \o
             w(HasAlternationsWithQuantifiers(p), "Multiple alternations with quantifiers") \o
             w(HasMultipleWildcards(p), "Multiple .* or .+ in sequence") \o
             w(HasRepeatedGroupAtEnd(p), "Repeated word boundaries at end") \o
             w(HasBackreferences(p), "Backreferences detected") \o
             w(HasLargeCharacterClass(p), "Very large character class")]

HasId(patterns, id) == \E k \in 1..Len(patterns) : patterns[k].id = id

\* Object.assign(merged, customPatterns.patterns)
RECURSIVE AssignPatterns(_, _)
AssignPatterns(merged, ps) ==
    IF ps = <<>> THEN merged
    ELSE LET p == Head(ps)
         IN  AssignPatterns(
                 IF HasId(merged, p.id)
                   THEN [k \in 1..Len(merged) |-> IF merged[k].id = p.id THEN p ELSE merged[k]]
                   ELSE Append(merged, p),
                 Tail(ps))

mergePatterns(defaultPatterns, customPatterns) ==
    LET merged == AssignPatterns(defaultPatterns, customPatterns.patterns)
        kept(p) == p.id \notin customPatterns.disabled
    IN  SelectSeq(merged, kept)

\* a validation that keeps every pattern
validateAndFilterPatterns_KeepsUnsafe(patterns) == patterns

validateAndFilterPatterns(patterns) ==
    LET safe(p) == validatePattern(RegexSource(p.pattern)).safe
    IN  SelectSeq(patterns, safe)

\* this.patterns of new ContentAnalyzer(customPatternsPath)
loadPatterns(customPatternsPath) ==
    validateAndFilterPatterns(
        IF customPatternsPath # Null THEN mergePatterns(Catalog, CustomPatternsFile)
        ELSE Catalog)

\* testPatternSafety(pattern) for the pattern of a catalog entry: false when
\* safeRegexExec throws on the stress string 'a'.repeat(1000), which for a
\* source compiled with the g flag is the timeout between two matches
testPatternSafety(patternInfo, slow) == patternInfo.id \notin slow

\* regex sources: every short source over PatternChars, and the longer ones
\* of the tests (safeRegex.test.js 141-232) with their neighbours
PatternChars == {"(", ")", "a", "+", "*", ".", "|"}

Repeat(c, n) == [i \in 1..n |-> c]

LongSources ==
    { << "a", "+", "|", "a", "+", "|", "a", "+", "|", "a", "+" >>,
      << "a", "|", "a", "|", "a", "|", "a" >>,
      << "(", "\\", "w", "+", ")", "{", "2", ",", "}", "$" >>,
      << "(", "a", "+", ")", ")", "$" >>,
      << "(", "a", ")", "\\", "1" >>,
      << "(", "a", "+", ")", "*", ".", "*", "\\", "1" >>,
      << "(", "a", "\\", "+", ")", "+" >>,
      << "(", "(", "a", "+", ")", ")", "+" >>,
      <<"[">> \o Repeat("a", 60) \o <<"]">>,
      <<"[">> \o Repeat("a", 50) \o <<"]">>,
      <<"[">> \o Repeat("a", 49) \o <<"]">>,
      << "AKIA", "[", "0", "-", "9", "A", "-", "Z", "]", "{", "1", "6", "}" >> }

PatternSources == SeqsOf(PatternChars, 0, MaxPatternLen) \cup LongSources

PatternIds ==
    {Catalog[k].id : k \in 1..Len(Catalog)} \cup
    {CustomPatternsFile.patterns[k].id : k \in 1..Len(CustomPatternsFile.patterns)}

PInit ==
    /\ AIdle
    /\ BIdle
    /\ RIdle
    /\ SIdle
    /\ validation = [none |-> TRUE]
    /\ activePatterns = <<>>
    /\ \/ /\ ppc = "validate"
          /\ patternSource \in PatternSources
          /\ patternsPath = Null
          /\ slowPatterns = {}
       \/ /\ ppc = "load"
          /\ patternSource = <<>>
          /\ patternsPath \in {Null, "custom-patterns.json"}
          /\ slowPatterns \in SUBSET PatternIds

\* validatePattern(pattern)
ValidatePattern ==
    /\ ppc = "validate"
    /\ validation' = validatePattern(patternSource)
    /\ ppc' = "validated"
    /\ UNCHANGED <<patternSource, patternsPath, slowPatterns, activePatterns, notP>>

\* new ContentAnalyzer(customPatternsPath)
LoadPatterns ==
    /\ ppc = "load"
    /\ activePatterns' = loadPatterns(patternsPath)
    /\ ppc' = "loaded"
    /\ UNCHANGED <<patternSource, validation, patternsPath, slowPatterns, notP>>

PNext == ValidatePattern \/ LoadPatterns

SpecPattern == PInit /\ [][PNext]_vars

----------------------------------------------------------------------------
\* HardcodedApiDetector (index.js) and WorkerPool (scanner/workerPool.js)

\* the options object both scans pass to analyzeContent (306-311, 347-352)
TaskOptions(det) ==
    [minSeverity |-> det.severity,
     disabledPatterns |-> det.disabledPatterns,
     excludeCategories |-> det.excludeCategories,
     useEntropyFilter |-> det.useEntropyFilter]

\* a count that looks at the first file only
CountSeverity_FirstFileOnly(fileResults, sev) ==
    IF fileResults = <<>> THEN 0
    ELSE LET is(f) == f.severity = sev
         IN  Len(SelectSeq(Head(fileResults).findings, is))

\* the number of findings of a severity in a list of {file, findings}
RECURSIVE CountSeverity(_, _)
CountSeverity(fileResults, sev) ==
    IF fileResults = <<>> THEN 0
    ELSE LET is(f) == f.severity = sev
         IN  Len(SelectSeq(Head(fileResults).findings, is))
             + CountSeverity(Tail(fileResults), sev)

formatResults(totalFiles, fileResults) ==
    [totalFiles |-> totalFiles,
     filesWithIssues |-> Len(fileResults),
     summary |-> [sev \in {"critical", "high", "medium", "low"}
                            \cup {f.severity : f \in UNION {Range(r.findings) :
                                                                r \in Range(fileResults)}} |->
                    CountSeverity(fileResults, sev)],
     findings |-> fileResults]

\* the loop of scanSingleThreaded over the files from file i on (305-319)
RECURSIVE SingleThreadedResults(_, _, _)
SingleThreadedResults(det, files, i) ==
    IF i > Len(files) THEN <<>>
    ELSE LET fileFindings ==
                 analyzeContent(loadPatterns(det.customPatternsPath), files[i], TaskOptions(det))
         IN  (IF Len(fileFindings) > 0 THEN <<[file |-> i, findings |-> fileFindings]>>
              ELSE <<>>)
             \o SingleThreadedResults(det, files, i + 1)

\* the baseline filtering both scans end with (321-326, 376-381)
ApplyBaseline(det, onDisk, results) ==
    IF det.baselineManager THEN filterFindings(loadBaseline(onDisk), results)
    ELSE results

scanSingleThreaded(det, files, onDisk) ==
    formatResults(Len(files),
                  ApplyBaseline(det, onDisk, SingleThreadedResults(det, files, 1)))

\* the message the worker posts for a task (analyzerWorker.js 19-43): the
\* worker's analyzer is new ContentAnalyzer()
WorkerResult(task, taskOptions, files) ==
    [filePath |-> task,
     findings |-> analyzeContent(loadPatterns(Null), files[task], taskOptions),
     error |-> Null]

WorkerErrorResult(task) ==
    [filePath |-> task, findings |-> <<>>, error |-> "error"]

\* a processQueue that posts to the first worker without looking at busy
processQueue_FirstWorker(P) ==
    IF Len(P.queue) = 0 \/ Len(P.workers) = 0 THEN P
    ELSE [workers |-> [P.workers EXCEPT ![1] =
                          [@ EXCEPT !.busy = TRUE, !.task = Head(P.queue)]],
          queue |-> Tail(P.queue),
          activeWorkers |-> P.activeWorkers + 1]

\* processQueue on the pool P = [workers, queue, activeWorkers] (87-99)
processQueue(P) ==
    IF Len(P.queue) = 0 THEN P
    ELSE LET free == {w \in 1..Len(P.workers) : ~P.workers[w].busy}
         IN  IF free = {} THEN P
             ELSE LET availableWorker == CHOOSE w \in free : \A v \in free : w <= v
                  IN  [workers |-> [P.workers EXCEPT ![availableWorker] =
                                        [@ EXCEPT !.busy = TRUE, !.task = Head(P.queue)]],
                       queue |-> Tail(P.queue),
                       activeWorkers |-> P.activeWorkers + 1]

\* the pool after messageHandler / errorHandler of worker w, before resolve
\* or reject (102-103, 111-112)
ReleaseWorker(P, w, alive) ==
    [P EXCEPT !.workers[w] = [busy |-> FALSE, alive |-> alive, task |-> 0],
              !.activeWorkers = @ - 1]

Pool == [workers |-> workers, queue |-> queue, activeWorkers |-> activeWorkers]

SetPool(P) ==
    /\ workers' = P.workers
    /\ queue' = P.queue
    /\ activeWorkers' = P.activeWorkers

\* the results of the resolved tasks, filtered and mapped (361-366)
RECURSIVE ParallelFindings(_)
ParallelFindings(results) ==
    IF results = <<>> THEN <<>>
    ELSE LET r == Head(results)
         IN  (IF r.error = Null /\ Len(r.findings) > 0
                THEN <<[file |-> r.filePath, findings |-> r.findings]>>
                ELSE <<>>)
             \o ParallelFindings(Tail(results))

\* the files of the results with an error (369-374)
ErrorFiles(results) ==
    LET failed(r) == r.error # Null
        errors == SelectSeq(results, failed)
    IN  [k \in 1..Len(errors) |-> errors[k].filePath]

\* a line with a match of each pattern of the custom file, and one with no
\* match
CustomLine == <<"const", "CUSTOM_", "(a+)+", "(a)\\1">>

CleanLine == <<"const">>

\* the contents of the files a scan is given
ScanFileTexts == {<<PlainLine>>, <<CustomLine>>, <<CleanLine>>}

Detectors ==
    [customPatternsPath : {Null, "custom-patterns.json"},
     severity : {"medium"},
     disabledPatterns : {{}},
     excludeCategories : {{}},
     useEntropyFilter : {FALSE},
     useBaseline : BOOLEAN,
     baselineManager : BOOLEAN,
     useWorkers : {TRUE},
     workerCount : 1..MaxWorkers]

\* a baseline file generated earlier, from a scan of one file of credentials
EarlierBaseline ==
    generateBaseline(<<[file |-> 1,
                        findings |-> analyzeContent(Catalog, <<PlainLine>>, DefaultOptions)]>>)

SInit ==
    /\ PIdle
    /\ AIdle
    /\ RIdle
    /\ detector \in {d \in Detectors : d.baselineManager = d.useBaseline}
    /\ scanFiles \in SeqsOf(ScanFileTexts, 0, MaxFiles)
    /\ stored \in (IF detector.useBaseline THEN {NoBaseline, EarlierBaseline}
                   ELSE {NoBaseline})
    /\ baseline = NoBaseline
    /\ scanArg = <<>>
    /\ filtered = <<>>
    /\ bpc = "off"
    /\ spc = "idle"
    /\ workers = <<>>
    /\ queue = <<>>
    /\ activeWorkers = 0
    /\ promises = <<>>
    /\ scanResult = NoResult
    /\ failedLog = <<>>
    /\ threads = <<>>

\* the baseline the detector's manager holds after a scan
LoadedBaseline == IF detector.baselineManager THEN loadBaseline(stored) ELSE baseline

\* scanSingleThreaded(files)
ScanSingleThreaded ==
    /\ spc = "idle"
    /\ scanResult' = scanSingleThreaded(detector, scanFiles, stored)
    /\ baseline' = LoadedBaseline
    /\ spc' = "returnedSingle"
    /\ UNCHANGED <<detector, scanFiles, workers, queue, activeWorkers, promises, failedLog,
                   threads, stored, scanArg, filtered, bpc, notS>>

\* scanParallel(files) up to the end of pool.initialize() (339-343)
StartParallel ==
    /\ spc = "idle"
    /\ workers' = [w \in 1..detector.workerCount |->
                      [busy |-> FALSE, alive |-> TRUE, task |-> 0]]
    /\ threads' = [w \in 1..detector.workerCount |-> "running"]
    /\ spc' = IF Len(scanFiles) = 0 THEN "awaiting" ELSE "submitting"
    /\ UNCHANGED <<detector, scanFiles, queue, activeWorkers, promises, scanResult,
                   failedLog, bvars, notS>>

\* pool.initialize() fails part-way: new Worker throws after created workers
\* were started and pushed (46-63)
InitializeFails ==
    /\ spc = "idle"
    /\ \E created \in 0..(detector.workerCount - 1) :
        /\ workers' = [w \in 1..created |-> [busy |-> FALSE, alive |-> TRUE, task |-> 0]]
        /\ threads' = [w \in 1..created |-> "running"]
    /\ spc' = "throwing"
    /\ UNCHANGED <<detector, scanFiles, queue, activeWorkers, promises, scanResult,
                   failedLog, bvars, notS>>

\* the number of task promises resolved or rejected so far; a promise
\* records its rank among them in `settled`
NumSettled == Cardinality({i \in 1..Len(promises) : promises[i].state # "pending"})

\* execute(task) on the pool (75-80): the task is queued with the resolve
\* and reject of a new promise, then processQueue
ExecuteTask(task) ==
    /\ SetPool(processQueue([Pool EXCEPT !.queue = Append(@, task)]))
    /\ promises' = Append(promises, [state |-> "pending", value |-> NoResult,
                                     settled |-> 0])

\* a messageHandler that does not look at the queue again
MessageHandler_NoProcessQueue(w, result) ==
    /\ promises' = [promises EXCEPT ![workers[w].task] =
           [state |-> "resolved", value |-> result, settled |-> NumSettled + 1]]
    /\ SetPool(ReleaseWorker(Pool, w, TRUE))

\* messageHandler of the task worker w runs, called with result (101-108)
MessageHandler(w, result) ==
    /\ promises' = [promises EXCEPT ![workers[w].task] =
           [state |-> "resolved", value |-> result, settled |-> NumSettled + 1]]
    /\ SetPool(processQueue(ReleaseWorker(Pool, w, TRUE)))

\* errorHandler of the task worker w runs (110-117); the thread of w ends
ErrorHandler(w) ==
    /\ promises' = [promises EXCEPT ![workers[w].task] =
           [state |-> "rejected", value |-> NoResult, settled |-> NumSettled + 1]]
    /\ SetPool(processQueue(ReleaseWorker(Pool, w, FALSE)))
    /\ threads' = [threads EXCEPT ![w] = "exited"]

\* worker w runs a task and its thread is alive: it will post or die
Running(w) == w \in 1..Len(workers) /\ workers[w].busy /\ workers[w].alive

\* pool.execute(task) for the next task of tasks.map (357, 75-80)
Execute ==
    /\ spc = "submitting"
    /\ LET task == Len(promises) + 1
       IN  /\ ExecuteTask(task)
           /\ spc' = IF task = Len(scanFiles) THEN "awaiting" ELSE "submitting"
    /\ UNCHANGED <<detector, scanFiles, scanResult, failedLog, threads, bvars, notS>>

\* worker w posts the result of its task; messageHandler runs (101-108)
WorkerReply(w) ==
    /\ spc = "awaiting"
    /\ Running(w)
    /\ MessageHandler(w, WorkerResult(workers[w].task, TaskOptions(detector), scanFiles))
    /\ UNCHANGED <<detector, scanFiles, spc, scanResult, failedLog, threads, bvars, notS>>

\* worker w catches an exception of its task and posts an error result
WorkerPostsError(w) ==
    /\ spc = "awaiting"
    /\ Running(w)
    /\ MessageHandler(w, WorkerErrorResult(workers[w].task))
    /\ UNCHANGED <<detector, scanFiles, spc, scanResult, failedLog, threads, bvars, notS>>

\* worker w dies of an uncaught exception: its 'error' event, errorHandler
\* runs (110-117)
WorkerCrash(w) ==
    /\ spc = "awaiting"
    /\ Running(w)
    /\ ErrorHandler(w)
    /\ UNCHANGED <<detector, scanFiles, spc, scanResult, failedLog, bvars, notS>>

AllResolved == \A i \in 1..Len(promises) : promises[i].state = "resolved"

SomeRejected == \E i \in 1..Len(promises) : promises[i].state = "rejected"

\* pool.terminate() (128-140): worker.terminate() on each of this.workers
Terminate ==
    /\ threads' = [w \in 1..Len(threads) |->
                      IF w \in 1..Len(workers) THEN "exited" ELSE threads[w]]
    /\ workers' = <<>>
    /\ queue' = <<>>
    /\ activeWorkers' = 0

\* an array of the values in the order the promises settled in
PromiseAllValues_InSettleOrder(ps) ==
    [k \in 1..Len(ps) |-> ps[CHOOSE i \in 1..Len(ps) : ps[i].settled = k].value]

\* the value of Promise.all over promises that all resolved: their values in
\* the order of the promises
PromiseAllValues(ps) == [i \in 1..Len(ps) |-> ps[i].value]

\* Promise.all resolves: the rest of the try block of scanParallel, up to
\* the return statement (361-383)
ScanParallelReturns ==
    /\ spc = "awaiting"
    /\ AllResolved
    /\ LET results == PromiseAllValues(promises)
       IN  /\ failedLog' = ErrorFiles(results)
           /\ scanResult' = formatResults(Len(scanFiles),
                                ApplyBaseline(detector, stored, ParallelFindings(results)))
    /\ baseline' = LoadedBaseline
    /\ spc' = "returning"
    /\ UNCHANGED <<detector, scanFiles, promises, workers, queue, activeWorkers, threads,
                   stored, scanArg, filtered, bpc, notS>>

\* Promise.all rejects: the await in scanParallel throws (356-358)
ScanParallelThrows ==
    /\ spc = "awaiting"
    /\ SomeRejected
    /\ spc' = "throwing"
    /\ UNCHANGED <<detector, scanFiles, promises, workers, queue, activeWorkers, threads,
                   scanResult, failedLog, bvars, notS>>

\* an exception after Promise.all resolved, in the filtering of the results
\* or of the baseline (361-383)
PostProcessingThrows ==
    /\ spc = "awaiting"
    /\ AllResolved
    /\ spc' = "throwing"
    /\ UNCHANGED <<detector, scanFiles, promises, workers, queue, activeWorkers, threads,
                   scanResult, failedLog, bvars, notS>>

\* a finally block that runs on the return path only
Finally_OnReturnOnly ==
    /\ spc \in {"returning", "throwing"}
    /\ IF spc = "returning" THEN Terminate
       ELSE UNCHANGED <<workers, queue, activeWorkers, threads>>
    /\ spc' = IF spc = "returning" THEN "returnedParallel" ELSE "thrown"
    /\ UNCHANGED <<detector, scanFiles, promises, scanResult, failedLog, bvars, notS>>

\* the finally block of scanParallel (384-386), then the return or the throw
Finally ==
    /\ spc \in {"returning", "throwing"}
    /\ Terminate
    /\ spc' = IF spc = "returning" THEN "returnedParallel" ELSE "thrown"
    /\ UNCHANGED <<detector, scanFiles, promises, scanResult, failedLog, bvars, notS>>

----------------------------------------------------------------------------
\* A WorkerPool on its own (workerPool.js): executes, replies and worker
\* errors in any order, between initialize and terminate

PoolInit ==
    /\ PIdle
    /\ AIdle
    /\ BIdle
    /\ RIdle
    /\ detector \in {d \in Detectors :
                        d.customPatternsPath = Null /\ ~d.useBaseline /\ ~d.baselineManager}
    /\ scanFiles \in {[i \in 1..n |-> <<PlainLine>>] : n \in 1..MaxPoolTasks}
    /\ spc = "constructed"
    /\ workers = <<>>
    /\ queue = <<>>
    /\ activeWorkers = 0
    /\ promises = <<>>
    /\ scanResult = NoResult
    /\ failedLog = <<>>
    /\ threads = <<>>

\* pool.initialize() (43-67), poolSize being the detector's workerCount
PoolInitialize ==
    /\ spc = "constructed"
    /\ workers' = [w \in 1..detector.workerCount |->
                      [busy |-> FALSE, alive |-> TRUE, task |-> 0]]
    /\ threads' = [w \in 1..detector.workerCount |-> "running"]
    /\ spc' = "pool"
    /\ UNCHANGED <<detector, scanFiles, queue, activeWorkers, promises, scanResult,
                   failedLog, bvars, notS>>

\* pool.execute({filePath, options}) for the next file
PoolExecute ==
    /\ spc = "pool"
    /\ Len(promises) < Len(scanFiles)
    /\ ExecuteTask(Len(promises) + 1)
    /\ UNCHANGED <<detector, scanFiles, spc, scanResult, failedLog, threads, bvars, notS>>

\* worker w posts the result of its task
PoolReply(w) ==
    /\ spc = "pool"
    /\ Running(w)
    /\ MessageHandler(w, WorkerResult(workers[w].task, TaskOptions(detector), scanFiles))
    /\ UNCHANGED <<detector, scanFiles, spc, scanResult, failedLog, threads, bvars, notS>>

\* worker w posts an error result for its task
PoolPostsError(w) ==
    /\ spc = "pool"
    /\ Running(w)
    /\ MessageHandler(w, WorkerErrorResult(workers[w].task))
    /\ UNCHANGED <<detector, scanFiles, spc, scanResult, failedLog, threads, bvars, notS>>

\* worker w dies of an uncaught exception while it runs its task
PoolWorkerError(w) ==
    /\ spc = "pool"
    /\ Running(w)
    /\ ErrorHandler(w)
    /\ UNCHANGED <<detector, scanFiles, spc, scanResult, failedLog, bvars, notS>>

\* pool.terminate()
PoolTerminate ==
    /\ spc = "pool"
    /\ Terminate
    /\ spc' = "terminated"
    /\ UNCHANGED <<detector, scanFiles, promises, scanResult, failedLog, bvars, notS>>

\* a step of a worker that runs a task: it posts its result or it dies
WorkerStep(w) == PoolReply(w) \/ PoolPostsError(w) \/ PoolWorkerError(w)

PoolNext ==
    \/ PoolInitialize
    \/ PoolExecute
    \/ \E w \in 1..MaxWorkers : PoolReply(w)
    \/ \E w \in 1..MaxWorkers : PoolPostsError(w)
    \/ \E w \in 1..MaxWorkers : PoolWorkerError(w)
    \/ PoolTerminate

SpecPool == PoolInit /\ [][PoolNext]_vars

\* analyzeContent returns or throws, so a live worker that was given a task
\* ends it; initialize completes and the caller submits its tasks
SpecPoolFair ==
    /\ SpecPool
    /\ WF_vars(PoolInitialize)
    /\ WF_vars(PoolExecute)
    /\ \A w \in 1..MaxWorkers : WF_vars(WorkerStep(w))

\* scan (284): whether the scan goes to the worker pool
\* a dispatch that needs more than ten files
shouldUseWorkers_MoreThanTen(det, files) == det.useWorkers /\ Len(files) > 10

shouldUseWorkers(det, files) == det.useWorkers /\ Len(files) >= 10

\* HardcodedApiDetector.generateBaseline(directory) on a directory of fewer
\* than ten files (427-445): options.useBaseline is set to false and restored
\* in the finally; the scan tests this.baselineManager, which the constructor
\* set; a new BaselineManager generates and saves the baseline, or the save
\* throws
GenerateBaselineFromScan ==
    /\ spc = "idle"
    /\ ~shouldUseWorkers([detector EXCEPT !.useBaseline = FALSE], scanFiles)
    /\ LET results == scanSingleThreaded([detector EXCEPT !.useBaseline = FALSE],
                                         scanFiles, stored)
       IN  /\ scanResult' = results
           /\ \E saved \in BOOLEAN :
                /\ stored' = IF saved THEN generateBaseline(results.findings) ELSE stored
                /\ spc' = IF saved THEN "generatedBaseline" ELSE "generateBaselineFailed"
    /\ baseline' = LoadedBaseline
    /\ UNCHANGED <<detector, scanFiles, workers, queue, activeWorkers, promises, failedLog,
                   threads, scanArg, filtered, bpc, notS>>

SNext ==
    \/ ScanSingleThreaded
    \/ GenerateBaselineFromScan
    \/ StartParallel
    \/ InitializeFails
    \/ Execute
    \/ \E w \in 1..MaxWorkers : WorkerReply(w)
    \/ \E w \in 1..MaxWorkers : WorkerPostsError(w)
    \/ \E w \in 1..MaxWorkers : WorkerCrash(w)
    \/ ScanParallelReturns
    \/ ScanParallelThrows
    \/ PostProcessingThrows
    \/ Finally

SpecScan == SInit /\ [][SNext]_vars

----------------------------------------------------------------------------
\* HardcodedApiDetector.scan (279-293)

\* the numbers of files scanFiles(directory) finds
DispatchCounts == {0, 1, 9, 10, MaxDispatchFiles}

DispatchDetectors ==
    {[d EXCEPT !.useWorkers = u] : d \in Detectors, u \in BOOLEAN}

DInit ==
    /\ PIdle
    /\ AIdle
    /\ RIdle
    /\ detector \in {d \in DispatchDetectors : d.baselineManager = d.useBaseline}
    /\ scanFiles \in {[i \in 1..n |-> text] : n \in DispatchCounts, text \in ScanFileTexts}
    /\ stored \in (IF detector.useBaseline THEN {NoBaseline, EarlierBaseline}
                   ELSE {NoBaseline})
    /\ baseline = NoBaseline
    /\ scanArg = <<>>
    /\ filtered = <<>>
    /\ bpc = "off"
    /\ spc = "idle"
    /\ workers = <<>>
    /\ queue = <<>>
    /\ activeWorkers = 0
    /\ promises = <<>>
    /\ scanResult = NoResult
    /\ failedLog = <<>>
    /\ threads = <<>>

\* scan(directory) up to the return of scanSingleThreaded or to the end of
\* pool.initialize() in scanParallel
Scan ==
    IF shouldUseWorkers(detector, scanFiles) THEN StartParallel \/ InitializeFails
    ELSE ScanSingleThreaded

DNext == Scan

SpecDispatch == DInit /\ [][DNext]_vars

----------------------------------------------------------------------------
\* Claims about the inline-ignore parser and the pattern filters

\* what a line carries, by its sentinel
IsDisableNextLine(l) == Includes(l, SentinelDisableNextLine)

IsDisableLine(l) == Includes(l, SentinelDisableLine)

IsBlockDisable(l) ==
    Includes(l, SentinelDisable) /\ ~IsDisableNextLine(l) /\ ~IsDisableLine(l)

IsBlockEnable(l) == Includes(l, SentinelEnable)

NoSentinel(l) == ~Includes(l, SentinelDisable) /\ ~Includes(l, SentinelEnable)

\* line n lies after a block-disable line with no enable line in between
InExplicitBlock(n) ==
    \E d \in 1..(n - 1) :
        /\ IsBlockDisable(file[d])
        /\ \A e \in (d + 1)..(n - 1) : ~IsBlockEnable(file[e])

\* C2: disable-next-line and disable-line open no block: a line without a
\* sentinel that is outside every explicit disable...enable block and does not
\* follow a disable-next-line line is not ignored, and its credential is found.
C2_SingleLineSentinelsOpenNoBlock ==
    \A n \in 1..Len(file) :
        (/\ NoSentinel(file[n])
         /\ ~InExplicitBlock(n)
         /\ (n > 1 => ~IsDisableNextLine(file[n - 1])))
        => /\ apc \in {"parsed", "analyzed"} => n \notin ignoredLines
           /\ (apc = "analyzed" /\ options = DefaultOptions)
                => \E k \in 1..Len(findings) : findings[k].line = n

\* C9: with one block-disable line d and one enable line e > d as the only
\* sentinels, the ignored set is exactly d..e-1.
C9_BlockIgnoresDisableToBeforeEnable ==
    apc = "parsed" =>
        \A d \in 1..Len(file) : \A e \in (d + 1)..Len(file) :
            (/\ IsBlockDisable(file[d])
             /\ IsBlockEnable(file[e])
             /\ \A n \in 1..Len(file) \ {d, e} : NoSentinel(file[n]))
            => ignoredLines = d..(e - 1)

\* C9 witness: a block of two enclosed lines with a line before it
C9_Witness ==
    /\ apc = "parsed"
    /\ file = <<PlainLine, BlockDisableLine, PlainLine, PlainLine, BlockEnableLine>>
    /\ ignoredLines = {2, 3, 4}

\* the catalog pattern a finding comes from
PatternOf(f) == CHOOSE p \in {Catalog[k] : k \in 1..Len(Catalog)} : p.id = f.id

\* the fixed ordering low < medium < high < critical
RankOf(sev) ==
    CASE sev = "low" -> 1 [] sev = "medium" -> 2 [] sev = "high" -> 3
      [] sev = "critical" -> 4

\* C10: every finding of analyzeContent and of analyzeStream comes from a
\* pattern that is not disabled, whose category is not excluded and whose
\* severity (as reported on the finding) ranks at least minSeverity.
C10_FindingsPassPatternFilters ==
    apc \in {"analyzed", "streamed"} =>
        \A k \in 1..Len(findings) :
            /\ findings[k].id \notin options.disabledPatterns
            /\ PatternOf(findings[k]).category \notin options.excludeCategories
            /\ options.minSeverity # Undefined
                 => RankOf(findings[k].severity) >= RankOf(options.minSeverity)

\* C10 witness: a call with all three filters set that still reports a finding
C10_Witness ==
    /\ apc = "analyzed"
    /\ options.minSeverity = "high"
    /\ options.disabledPatterns # {}
    /\ options.excludeCategories # {}
    /\ Len(findings) > 0

----------------------------------------------------------------------------
\* Claims about the baseline manager

\* finding f of file filePath is in the result of the last filterFindings
Retained(filePath, f) ==
    \E k \in 1..Len(filtered) :
        filtered[k].file = filePath /\ f \in Range(filtered[k].findings)

\* C1: with a baseline loaded, filterFindings drops a finding exactly when the
\* baseline has an entry under its file:line key whose stored hash equals the
\* hash of the current finding; a finding whose key is present but whose
\* pattern id, matched text or line differs from the entry's is retained.
C1_FilterDropsIffKeyAndHashMatch ==
    (bpc = "filtered" /\ baseline # NoBaseline) =>
        \A k \in 1..Len(scanArg) : \A f \in Range(scanArg[k].findings) :
            LET filePath == scanArg[k].file
                key == BaselineKey(filePath, f.line)
                present == key \in DOMAIN baseline.files
            IN  /\ ~Retained(filePath, f)
                      <=> (present /\ baseline.files[key].hash
                                        = generateFindingHash(f, filePath))
                /\ (present /\ (\/ baseline.files[key].type # f.id
                                \/ baseline.files[key].match # f.match
                                \/ baseline.files[key].line # f.line))
                      => Retained(filePath, f)

\* C1 witness: one call that drops a baselined finding and retains a finding
\* whose key is baselined with another hash
C1_Witness ==
    /\ bpc = "filtered"
    /\ baseline # NoBaseline
    /\ \E k \in 1..Len(scanArg) : \E f, g \in Range(scanArg[k].findings) :
        LET filePath == scanArg[k].file
        IN  /\ BaselineKey(filePath, f.line) \in DOMAIN baseline.files
            /\ ~Retained(filePath, f)
            /\ BaselineKey(filePath, g.line) \in DOMAIN baseline.files
            /\ Retained(filePath, g)

\* C7: filtering a scan result against the baseline generated from that same
\* scan result reports nothing.
C7_FilterAgainstOwnBaselineIsEmpty ==
    (bpc = "filtered" /\ baseline # NoBaseline /\ baseline = generateBaseline(scanArg))
        => filtered = <<>>

\* C8: generateBaseline builds one entry per finding: the number of entries
\* equals totalFindings and the number of findings of the scan result; every
\* entry is unreviewed, without reviewer and with the default reason.
C8_OneEntryPerFinding ==
    bpc = "generated" =>
        /\ Cardinality(DOMAIN stored.files) = stored.totalFindings
        /\ stored.totalFindings = CountFindings(scanArg)
        /\ \A key \in DOMAIN stored.files :
            /\ stored.files[key].reviewed = FALSE
            /\ stored.files[key].reviewedBy = Null
            /\ stored.files[key].reason = DefaultReason

----------------------------------------------------------------------------
\* Claims about safeRegexExec

\* C5: safeRegexExec never returns a list of more than MAX_MATCHES matches.
C5_NeverReturnsMoreThanCeiling ==
    rpc = "returned" => matches.length <= MAX_MATCHES

\* C6: the elapsed time is checked at every match: once a match is found
\* after more than timeout ticks the call has thrown the timeout error, and a
\* call that returns its list found every match within the timeout.
C6_TimeoutCheckedAtEveryMatch ==
    /\ lateMatch => rpc = "timeout"
    /\ rpc = "returned" => (~lateMatch /\ elapsed <= timeout)

\* C6 witness: a timeout thrown after matches had been collected
C6_Witness ==
    /\ rpc = "timeout"
    /\ lateMatch
    /\ matches.length > 0
    /\ timeout > 0

----------------------------------------------------------------------------
\* Claims about the scan strategies and the worker pool

\* the set of findings a ScanResult reports for file i
FindingsOfFile(result, i) ==
    UNION {Range(result.findings[k].findings) :
              k \in {j \in 1..Len(result.findings) : result.findings[j].file = i}}

\* C3: for the same file list and the same detector options (a custom
\* patterns file included, if one is configured), scanParallel returns a
\* result with the same severity summary, the same filesWithIssues and, file
\* by file, the same set of findings as scanSingleThreaded. Stated for the
\* parallel scans in which no task failed.
C3_ParallelEqualsSingleThreaded ==
    (spc = "returnedParallel" /\ failedLog = <<>>) =>
        LET single == scanSingleThreaded(detector, scanFiles, stored)
        IN  /\ scanResult.summary = single.summary
            /\ scanResult.filesWithIssues = single.filesWithIssues
            /\ \A i \in 1..Len(scanFiles) :
                   FindingsOfFile(scanResult, i) = FindingsOfFile(single, i)

\* C4: a failure of a worker while it processes one file, posted back as an
\* error result or surfaced as the worker's 'error' event, never makes
\* scanParallel reject; the scan returns a result in which the failed files
\* are logged and have no findings, and every other file has the findings
\* the worker found in it (less the baselined ones).
C4_WorkerFailureNeverRejectsScan ==
    /\ ~(spc = "thrown" /\ SomeRejected)
    /\ spc = "returnedParallel" =>
           \A i \in 1..Len(scanFiles) :
               IF promises[i].value.error # Null
                 THEN /\ \E k \in 1..Len(failedLog) : failedLog[k] = i
                      /\ FindingsOfFile(scanResult, i) = {}
                 ELSE FindingsOfFile(scanResult, i) =
                          FindingsOfFile(
                              formatResults(1, ApplyBaseline(detector, stored,
                                  ParallelFindings(<<promises[i].value>>))), i)

----------------------------------------------------------------------------
\* Claims about the analysis of one file under faults

\* the file is missing, unreadable, larger than 10 MiB, binary, longer than
\* 100,000 lines, or fails with another I/O error
GuardedFile ==
    \/ disk.fault \in DiskFaults
    \/ disk.size > 10 * 1024 * 1024
    \/ disk.nullByteAt \in 1..512
    \/ Len(file) + disk.trailingNewlines > 100000

CatalogWithout(id) ==
    LET other(p) == p.id # id
    IN  SelectSeq(Catalog, other)

\* the findings of fs that other patterns than id produced
OfOtherPatterns(fs, id) ==
    LET other(f) == f.id # id
    IN  SelectSeq(fs, other)

\* the call of safeRegexExec for the pattern of regexFault on the whole
\* content of the file
FaultyExecOnContent ==
    SafeRegexExecOn(JoinLines(file), PatternOf(regexFault), 1)

\* the execution of the pattern of regexFault threw during the stream
ThrewInStream ==
    /\ regexFault.line \in 1..Len(file)
    /\ regexFault.line \notin ignoredLines
    /\ ~StreamShouldSkipPattern(regexFault.id, PatternOf(regexFault), options)
    /\ SafeRegexExecOn(file[regexFault.line], PatternOf(regexFault), regexFault.line).threw

C13_MatchesBeforeErrorReported ==
    (apc = "analyzed" /\ regexFault # NoFault /\ FaultyExecOnContent.threw
     /\ ~shouldSkipPattern(regexFault.id, PatternOf(regexFault), options)) =>
        \A k \in 1..Len(FaultyExecOnContent.matches) :
            LET lineNumber ==
                    NewlinesBefore(JoinLines(file), FaultyExecOnContent.matches[k].index) + 1
            IN  lineNumber \notin ignoredLines =>
                    \E j \in 1..Len(findings) :
                        findings[j].id = regexFault.id /\ findings[j].line = lineNumber

----------------------------------------------------------------------------
\* Claims about the active pattern set

\* the findings of all files of a ScanResult
AllFindingsOf(result) ==
    UNION {Range(result.findings[k].findings) : k \in 1..Len(result.findings)}

\* every pattern of the set is rated safe, and every finding of fs comes from
\* a pattern of the set
SafeSetProducing(patterns, fs) ==
    /\ \A k \in 1..Len(patterns) : validatePattern(RegexSource(patterns[k].pattern)).safe
    /\ \A f \in fs : \E k \in 1..Len(patterns) : patterns[k].id = f.id

\* C14: every pattern of a ContentAnalyzer's active set, built-in or custom,
\* is rated safe by validatePattern, and analyzeContent executes no pattern
\* rated unsafe: the detector's analyzer and the workers' analyzers report
\* findings of safe patterns of their sets only.
C14_ActivePatternsAreSafe ==
    /\ spc # "off" => SafeSetProducing(loadPatterns(detector.customPatternsPath), {})
    /\ spc = "returnedSingle" =>
           SafeSetProducing(loadPatterns(detector.customPatternsPath),
                            AllFindingsOf(scanResult))
    /\ spc = "returnedParallel" =>
           SafeSetProducing(loadPatterns(Null), AllFindingsOf(scanResult))

C14_Witness ==
    /\ spc = "returnedSingle"
    /\ detector.customPatternsPath # Null
    /\ \E i \in 1..Len(scanFiles) : scanFiles[i] = <<CustomLine>>
    /\ \E f \in AllFindingsOf(scanResult) : f.id = "backreference_pattern"
    /\ \A f \in AllFindingsOf(scanResult) : f.id # "redos_pattern"

----------------------------------------------------------------------------
\* Claims about StreamAnalyzer

\* C15: the set of line numbers analyzeStream suppresses because of inline
\* ignore comments equals the set parseInlineIgnoreComments computes for the
\* same lines.
C15_StreamIgnoresSameLines ==
    apc = "streamed" =>
        ignoredLines = parseInlineIgnoreComments(SplitLines(JoinLines(file)))

\* C16: analyzeStream never returns more than maxFindings findings for one
\* file, 1000 when the option is not given.
C16_StreamReturnsAtMostMaxFindings ==
    apc = "streamed" =>
        Len(findings) <= (IF options.maxFindings = 0 THEN 1000 ELSE options.maxFindings)

----------------------------------------------------------------------------
\* Claims about the entropy filter

\* the entropy filter drops the match: the call asks for it, the pattern is
\* marked for it, and the matched text has an entropy below 4.0
DroppedByEntropy(patternInfo, text) ==
    /\ options.useEntropyFilter
    /\ patternInfo.useEntropyFilter
    /\ EntropyOf(text) < 400

\* fs holds a finding of the pattern for the text on the line
Reports(fs, patternInfo, text, lineNumber) ==
    \E k \in 1..Len(fs) :
        fs[k].id = patternInfo.id /\ fs[k].match = text /\ fs[k].line = lineNumber

----------------------------------------------------------------------------
\* Claims about updateReview

\* C18: updateReview called with a key that is absent from the loaded
\* baseline, or with no baseline loaded, fails with an error, changes no
\* entry of the in-memory baseline and writes nothing to storage.
C18_UnknownKeyFailsWithoutEffect ==
    [][\A fileKey \in ReviewKeys :
          (/\ bpc \in {"idle", "loaded"}
           /\ bpc' \in {"reviewed", "reviewFailed"}
           /\ scanArg' = <<fileKey>>
           /\ (baseline = NoBaseline \/ fileKey \notin DOMAIN baseline.files))
          => (bpc' = "reviewFailed" /\ baseline' = baseline /\ stored' = stored)]_vars

\* the fields of an entry a review sets
ReviewFields == {"reviewed", "reviewedBy", "reviewDate", "reason"}

\* a step of updateReview(fileKey, ...) on a key that is an entry
ReviewOfEntry(fileKey) ==
    /\ bpc \in {"idle", "loaded"}
    /\ bpc' \in {"reviewed", "reviewFailed"}
    /\ scanArg' = <<fileKey>>
    /\ baseline # NoBaseline
    /\ fileKey \in DOMAIN baseline.files

\* C27: updateReview on a key present in the baseline changes only that
\* entry's reviewed, reviewedBy, reviewDate and reason; its hash, line, match
\* and every other entry are unchanged, and filterFindings suppresses the same
\* findings before and after the review, whichever finding of whichever file
\* it is given.
C27_ReviewChangesOnlyReviewFields ==
    [][\A fileKey \in ReviewKeys :
          ReviewOfEntry(fileKey) =>
              /\ DOMAIN baseline'.files = DOMAIN baseline.files
              /\ \A k \in DOMAIN baseline.files \ {fileKey} :
                     baseline'.files[k] = baseline.files[k]
              /\ DOMAIN baseline'.files[fileKey] = DOMAIN baseline.files[fileKey]
              /\ \A field \in DOMAIN baseline.files[fileKey] \ ReviewFields :
                     baseline'.files[fileKey][field] = baseline.files[fileKey][field]
              /\ baseline'.files[fileKey].reviewed
              /\ DOMAIN baseline' = DOMAIN baseline
              /\ \A field \in DOMAIN baseline \ {"files"} : baseline'[field] = baseline[field]
              /\ \A f \in BaselineFiles, finding \in BaselineFindings :
                     LET r == <<[file |-> f, findings |-> <<finding>>]>>
                     IN  filterFindings(baseline', r) = filterFindings(baseline, r)]_vars

\* an entry of a baseline of two entries was reviewed and saved; the other
\* entry is not reviewed
C27_Witness ==
    /\ bpc = "reviewed"
    /\ Cardinality(DOMAIN baseline.files) = 2
    /\ scanArg[1] \in DOMAIN baseline.files
    /\ baseline.files[scanArg[1]].reviewedBy = "alice"
    /\ "hash" \in DOMAIN baseline.files[scanArg[1]]
    /\ \E k \in DOMAIN baseline.files : ~baseline.files[k].reviewed
    /\ stored = baseline

----------------------------------------------------------------------------
\* Claims about the shutdown of the worker pool

\* C19: when scanParallel has returned or thrown, every worker thread of its
\* pool has been terminated: on normal completion, when a task promise
\* rejected, when pool initialization failed part-way and when the processing
\* after Promise.all threw.
C19_WorkersTerminatedBeforeReturnOrThrow ==
    spc \in {"returnedParallel", "thrown"} =>
        /\ \A w \in 1..Len(threads) : threads[w] = "exited"
        /\ workers = <<>>

\* scanParallel threw while a task was still running on a live worker
C19_Witness ==
    /\ spc = "thrown"
    /\ Len(threads) = 2
    /\ \E i \in 1..Len(promises) : promises[i].state = "rejected"
    /\ \E i \in 1..Len(promises) : promises[i].state = "pending"
    /\ \A w \in 1..Len(threads) : threads[w] = "exited"

----------------------------------------------------------------------------
\* Claims about the order of the results of a parallel scan

\* the files of the per-file list of a ScanResult, in its order
FilesOf(result) == [k \in 1..Len(result.findings) |-> result.findings[k].file]

----------------------------------------------------------------------------
\* Claims about the ScanResult

\* the number of findings of the severity in the first n per-file entries
RECURSIVE FindingsOfSeverity(_, _, _)
FindingsOfSeverity(result, sev, n) ==
    IF n = 0 THEN 0
    ELSE Cardinality({j \in 1..Len(result.findings[n].findings) :
                         result.findings[n].findings[j].severity = sev})
         + FindingsOfSeverity(result, sev, n - 1)

\* C21: in every ScanResult the detector returns, each severity's summary
\* count is the number of findings of that severity in the per-file list,
\* filesWithIssues is the number of per-file entries, every per-file entry
\* holds at least one finding, and totalFiles is the number of input files.
C21_ScanResultIsConsistent ==
    spc \in {"returnedSingle", "returnedParallel"} =>
        /\ \A sev \in DOMAIN scanResult.summary :
               scanResult.summary[sev]
                   = FindingsOfSeverity(scanResult, sev, Len(scanResult.findings))
        /\ {"critical", "high", "medium", "low"} \subseteq DOMAIN scanResult.summary
        /\ \A f \in AllFindingsOf(scanResult) : f.severity \in DOMAIN scanResult.summary
        /\ scanResult.filesWithIssues = Len(scanResult.findings)
        /\ \A k \in 1..Len(scanResult.findings) : Len(scanResult.findings[k].findings) >= 1
        /\ scanResult.totalFiles = Len(scanFiles)
        /\ scanResult.filesWithIssues <= scanResult.totalFiles

C21_Witness ==
    /\ spc = "returnedParallel"
    /\ Len(scanFiles) = 2
    /\ scanResult.filesWithIssues = 1
    /\ scanResult.findings[1].file = 2
    /\ scanResult.summary["critical"] = 1
    /\ scanResult.summary["low"] = 0

----------------------------------------------------------------------------
\* Claims about the dispatch of a scan

\* C22: scan dispatches to the worker pool if and only if useWorkers is
\* enabled and there are at least 10 files; with 9 or fewer files, or with
\* useWorkers disabled, every file is analysed sequentially in-process and no
\* worker is created.
C22_WorkersIffEnabledAndTenFiles ==
    spc # "idle" =>
        IF detector.useWorkers /\ Len(scanFiles) >= 10
          THEN spc \in {"submitting", "awaiting", "throwing"}
        ELSE /\ spc = "returnedSingle"
             /\ scanResult.totalFiles = Len(scanFiles)
             /\ threads = <<>>
             /\ workers = <<>>

\* exactly ten files, workers enabled: the pool is started
C22_Witness ==
    /\ spc = "submitting"
    /\ detector.useWorkers
    /\ Len(scanFiles) = 10
    /\ Len(threads) = detector.workerCount

----------------------------------------------------------------------------
\* Claims about the validation and the loading of patterns

\* a group closed by a quantifier whose body ends in a quantifier: (x+)*
NestedQuantifierGroup(p) ==
    \E i \in 1..Len(p), j \in 1..Len(p) :
        /\ i < j
        /\ p[i] = "(" /\ At(p, i - 1) # "\\"
        /\ \A k \in (i + 1)..(j - 1) : p[k] \notin {"(", ")"}
        /\ p[j] \in Quantifiers /\ p[j - 1] # "\\"
        /\ At(p, j + 1) = ")"
        /\ At(p, j + 2) \in Quantifiers

\* two greedy wildcards, each .* or .+, one right after the other
ConsecutiveGreedyWildcards(p) ==
    \E i \in 1..Len(p) :
        /\ p[i] = "." /\ At(p, i - 1) # "\\" /\ At(p, i + 1) \in Quantifiers
        /\ At(p, i + 2) = "." /\ At(p, i + 3) \in Quantifiers

\* C23: validatePattern returns safe=false exactly when the pattern contains
\* a nested quantifier of the (x+)* kind or two or more consecutive greedy
\* wildcards (.* or .+); alternations combined with quantifiers,
\* backreferences and very large character classes only add warnings.
C23_UnsafeIffNestedOrWildcards ==
    ppc = "validated" =>
        (~validation.safe <=>
            NestedQuantifierGroup(patternSource) \/ ConsecutiveGreedyWildcards(patternSource))

\* C24: every pattern of the active set of a ContentAnalyzer passed
\* testPatternSafety at load time: no pattern on which the stress run times
\* out is in the active set.
C24_ActivePatternsPassStressTest ==
    ppc = "loaded" =>
        \A k \in 1..Len(activePatterns) : testPatternSafety(activePatterns[k], slowPatterns)

----------------------------------------------------------------------------
\* Claims about HardcodedApiDetector.generateBaseline

\* the result of the scan of the files with no baseline filtering
UnfilteredScan ==
    scanSingleThreaded([detector EXCEPT !.baselineManager = FALSE], scanFiles, NoBaseline)

\* C25: HardcodedApiDetector.generateBaseline runs its scan with baseline
\* filtering disabled: the baseline it saves has an entry for every finding of
\* the unfiltered scan, also on a detector constructed with useBaseline=true
\* over an existing baseline file.
C25_BaselineCoversUnfilteredScan ==
    spc = "generatedBaseline" => stored = generateBaseline(UnfilteredScan.findings)

----------------------------------------------------------------------------
\* Claims about the termination of safeRegexExec

\* the calls of regex.exec the loop has made and finished
ExecCalls ==
    IF rpc \in {"loop", "tooManyMatches"} THEN matchCount ELSE matchCount + 1

\* an iteration of a global regex that stays in the loop after an earlier match
NextGlobalMatch ==
    ExecMatch /\ regex.global /\ matches.length >= 1 /\ matches'.length > matches.length

\* C26: safeRegexExec terminates for every regex and every finite content:
\* the successive matches of a global regex start at strictly increasing
\* positions, the loop makes at most MAX_MATCHES + 2 calls of exec, for a
\* global regex and for a non-global one, and it ends by returning or throwing.
C26_SafeRegexExecTerminates ==
    /\ [][NextGlobalMatch => matches'.last > matches.last]_vars
    /\ [](rpc # "off" => ExecCalls <= MAX_MATCHES + 2)
    /\ <>(rpc \in {"returned", "timeout", "tooManyMatches", "executionError"})

\* a global regex of empty matches returned three of them, at 0, 1 and 2
C26_Witness ==
    /\ rpc = "returned"
    /\ regex.kind = "empty"
    /\ regex.global
    /\ matches = [length |-> 3, last |-> 2]

----------------------------------------------------------------------------
\* Claims about the WorkerPool

BusyWorkers == {w \in 1..Len(workers) : workers[w].busy}

\* the tasks submitted, not settled and no longer queued: posted to a worker
InFlight ==
    {t \in 1..Len(promises) :
        promises[t].state = "pending" /\ \A k \in 1..Len(queue) : queue[k] # t}

\* C28: between initialize and terminate a task is never posted to a busy
\* worker: every task in flight is the one task of one busy worker, and
\* activeWorkers is the number of workers whose busy flag is set, between 0
\* and poolSize.
C28_OneTaskPerBusyWorker ==
    spc = "pool" =>
        /\ activeWorkers = Cardinality(BusyWorkers)
        /\ 0 <= activeWorkers /\ activeWorkers <= detector.workerCount
        /\ Len(workers) = detector.workerCount
        /\ \A t \in InFlight : \E w \in BusyWorkers : workers[w].task = t
        /\ \A w \in BusyWorkers, v \in BusyWorkers :
               workers[w].task = workers[v].task => w = v

\* three tasks on a pool of two: two in flight, one queued
C28_Witness ==
    /\ spc = "pool"
    /\ detector.workerCount = 2
    /\ activeWorkers = 2
    /\ Len(queue) = 1
    /\ Len(promises) = 3

C30_EveryTaskEventuallySettled ==
    \A t \in 1..MaxPoolTasks :
        (spc = "pool" /\ Len(promises) >= t)
            ~> (spc = "terminated" \/ (Len(promises) >= t /\ promises[t].state # "pending"))

====
